---- MODULE Spec2Model ----
(***************************************************************************)
(* stream1090: the frame dispatcher (DemodCore), the ICAO trust cache      *)
(* (ICAOTable), the CRC engine with its error tables, and the block ring   *)
(* buffer (RingBufferAsync with its reader and writer).                    *)
(*                                                                         *)
(* A Bits128 or uint64_t register is the set of the positions of its 1     *)
(* bits (bit 0 is the least significant one); crc_t, keys, TTLs and times  *)
(* are integers.                                                           *)
(***************************************************************************)
EXTENDS Integers, Sequences, FiniteSets, TLC

(***************************************************************************)
(* Integer and bit helpers (the C++ operators <<, >>, &, ^ on the types    *)
(* above).                                                                 *)
(***************************************************************************)
Pow2(n) == 2 ^ n

XorBits(a, b) == (a \ b) \cup (b \ a)

\* bits lo .. lo+width-1 of the register s as an integer: (s >> lo) & (2^width - 1)
\* (summed by halves to keep the evaluation shallow)
RECURSIVE Field(_, _, _)
Field(s, lo, width) ==
    IF width = 0 THEN 0
    ELSE IF width = 1 THEN (IF lo \in s THEN 1 ELSE 0)
    ELSE LET h == width \div 2
         IN Field(s, lo, h) + (Pow2(h) * Field(s, lo + h, width - h))

\* the register holding the integer n (n < 2^31), its bit 0 at position pos
BitsOfFrom(n, pos) == {pos + i : i \in {j \in 0 .. 30 : (n \div Pow2(j)) % 2 = 1}}

BitsOf(n) == BitsOfFrom(n, 0)

\* a ^ b on integers below 2^31
XorInt(a, b) == Field(XorBits(BitsOf(a), BitsOf(b)), 0, 31)

\* Bits128::shiftLeft(int i) for 0 < i < 128, where both words are shifted by
\* less than 64: bits pushed past position 127 are lost
shiftLeft(s, i) == {b + i : b \in {x \in s : x + i <= 127}}

\* a 64-bit left shift (uint64_t << i)
shiftLeft64(s, i) == {b + i : b \in {x \in s : x + i <= 63}}

\* >> on either width
shiftRight(s, i) == {b - i : b \in {x \in s : x >= i}}

(***************************************************************************)
(* CRC.hpp                                                                 *)
(***************************************************************************)
polynomial == 33551369   \* 0x1FFF409

Bit24 == 16777216        \* 0x1 << 24

pushBack(crc, bit) ==
    LET c == 2 * crc + bit
    IN IF (c \div Bit24) % 2 = 1 THEN XorInt(c, polynomial) ELSE c

\* CRC::compute<numBits>(bits): pushBack of the bits numBits-1 .. 0 in that order.
\* computeRange pushes the bits hi .. lo onto result (the loop is split in halves
\* to keep the evaluation shallow; the IF makes the first half a value before
\* the second half starts)
RECURSIVE computeRange(_, _, _, _)
computeRange(bits, hi, lo, result) ==
    IF hi < lo THEN result
    ELSE IF hi = lo THEN pushBack(result, IF hi \in bits THEN 1 ELSE 0)
    ELSE LET mid   == (hi + lo + 1) \div 2
             upper == computeRange(bits, hi, mid, result)
         IN IF upper >= 0 THEN computeRange(bits, mid - 1, lo, upper) ELSE 0

compute(numBits, bits) == computeRange(bits, numBits - 1, 0, 0)

\* a round that only shifts
shiftReduce_shiftOnly(crc) == (2 * crc) % Bit24

\* one round of the loops of CRC::compute(fixop_t) and CRC::delta<bitIndex>()
shiftReduce(crc) ==
    LET c == 2 * crc
    IN IF (c \div Bit24) % 2 = 1 THEN XorInt(c, polynomial) ELSE c

\* n rounds
RECURSIVE shiftReduceTimes(_, _)
shiftReduceTimes(crc, n) ==
    IF n = 0 THEN crc
    ELSE IF n = 1 THEN shiftReduce(crc)
    ELSE LET first == shiftReduceTimes(crc, n \div 2)
         IN IF first >= 0 THEN shiftReduceTimes(first, n - (n \div 2)) ELSE 0

\* CRC::compute(fixop_t op)
computeOp(op) == shiftReduceTimes(op.pattern, op.index)

encodeFixOp(pattern, index) == [pattern |-> pattern, index |-> index]

valid(op) == op.pattern # 0

\* applyFixOp(fixop_t, Bits128&, offset) for op.index + offset > 0, where
\* every shift of Bits128::shiftLeft(int) is defined (the fix-ops of the
\* windows the dispatcher is fed have index > 0; applyFixOpLongOutcomes
\* below covers index 0)
applyFixOpLong(op, bits, offset) ==
    XorBits(bits, shiftLeft(BitsOf(op.pattern), op.index + offset))

\* applyFixOp(fixop_t, uint64_t&, offset)
applyFixOpShort(op, frameShort, offset) ==
    XorBits(frameShort, shiftLeft64(BitsOf(op.pattern), op.index + offset))

(***************************************************************************)
(* CRCErrorTable.hpp                                                       *)
(***************************************************************************)
\* m_keys and m_ops are kept for the slots insert has written; every other
\* slot holds the key 0 and the identity fixop_t the constructor wrote
BaseErrorTable == [keys |-> <<>>, ops |-> <<>>]

keyAt(t, i) == IF i \in DOMAIN t.keys THEN t.keys[i] ELSE 0

opAt(t, i) == IF i \in DOMAIN t.ops THEN t.ops[i] ELSE encodeFixOp(0, 0)

insert(t, size, op) ==
    LET crc == computeOp(op)
        i   == crc % size
    IN IF keyAt(t, i) = 0
       THEN [keys |-> (i :> crc) @@ t.keys, ops |-> (i :> op) @@ t.ops]
       ELSE t

\* the constructors' loops: insert(encodeFixOp(pattern, i)) for i = from .. upTo-1,
\* in that order (split in halves to keep the evaluation shallow)
RECURSIVE insertLoop(_, _, _, _, _)
insertLoop(t, size, pattern, from, upTo) ==
    IF from >= upTo THEN t
    ELSE IF from + 1 = upTo THEN insert(t, size, encodeFixOp(pattern, from))
    ELSE LET mid   == (from + upTo) \div 2
             first == insertLoop(t, size, pattern, from, mid)
         IN IF first = first THEN insertLoop(first, size, pattern, mid, upTo) ELSE t

DF17Size == 4859

DF11Size == 469

\* DF17ErrorTableExperimental (each loop is finished before the next one
\* starts: the IFs make its table a value)
df17ErrorTable ==
    LET t1 == insertLoop(BaseErrorTable, DF17Size, 1, 0, 112 - 5)
    IN IF t1 # t1 THEN t1
       ELSE LET t2 == insertLoop(t1, DF17Size, 3, 0, 111 - 5)
            IN IF t2 # t2 THEN t2
               ELSE LET t3 == insertLoop(t2, DF17Size, 7, 0, 110 - 5)
                    IN IF t3 # t3 THEN t3
                       ELSE insertLoop(t3, DF17Size, 129, 0, 16)

\* DF11ErrorTableExperimental
df11ErrorTable ==
    LET t1 == insertLoop(BaseErrorTable, DF11Size, 1, 0, 56 - 5)
    IN IF t1 # t1 THEN t1 ELSE insertLoop(t1, DF11Size, 3, 0, 55 - 5)

\* the slot of the crc, whatever its key
lookup_slotOnly(t, size, crc) == opAt(t, crc % size)

\* BaseErrorTable::lookup
lookup(t, size, crc) ==
    LET index == crc % size
    IN IF keyAt(t, index) = crc THEN opAt(t, index) ELSE encodeFixOp(0, 0)

(***************************************************************************)
(* ModeS.hpp: field extraction from right-aligned frames.  A long frame    *)
(* occupies bits 111..0 of a Bits128, a short frame bits 55..0 of a        *)
(* uint64_t.                                                               *)
(***************************************************************************)
\* (frame.high() >> 16) & 0x7ffffff
extractICAOWithCA_Long(frame) == Field(frame, 80, 27)

\* (frameShort >> 24) & 0x7ffffff
extractICAOWithCA_Short(frameShort) == Field(frameShort, 24, 27)

\* the 13-bit altitude/identity field, message bits 20..32
extractSquawkAlt_Long(frame) == Field(frame, 80, 13)

extractSquawkAlt_Short(frameShort) == Field(frameShort, 24, 13)

\* the 13-bit altitude code without its M bit (bit 6) and Q bit (bit 4):
\* the altitude in units of 25 ft
decodeAltitude(alt_bits) ==
    (alt_bits \div 128) * 32 + ((alt_bits \div 32) % 2) * 16 + (alt_bits % 16)

(***************************************************************************)
(* ICAOCache.hpp: ICAOTable.  m_table and m_squawkAlt are kept for the     *)
(* buckets of Buckets only (see below): every other bucket holds the       *)
(* entry the constructor wrote, for ever.                                  *)
(***************************************************************************)
TTL_not_trusted == 10

TTL_trusted == 30

ALT_delta_25ft == 80

NumBits == 16

Size == Pow2(NumBits)

HashMask == Size - 1

TickPeriod == 1000000

\* key & HashMask
Hash(key) == key % (HashMask + 1)

\* Entry{0x0, 0x0, 0, 0} and SquawkAlt{0, 0, 0, 0}
EmptyEntry == [trusted |-> 0, icao |-> 0, ttl |-> 0, ttl_trusted |-> 0]

EmptySquawkAlt == [squawk_cnt |-> 0, squawk |-> 0, altitude_cnt |-> 0, altitude |-> 0]

EntryAt(table, key) == IF key \in DOMAIN table THEN table[key] ELSE EmptyEntry

\* Iterator: the bucket index, Size for the invalid iterator
InvalidIterator == Size

isValid(it) == it < Size

\* insertWithCA that also starts the ttl of the entry
insertWithCA_markSeen(table, icaoWithCA) ==
    [table EXCEPT ![Hash(icaoWithCA)].icao = icaoWithCA,
                  ![Hash(icaoWithCA)].trusted = 0,
                  ![Hash(icaoWithCA)].ttl = TTL_not_trusted]

\* the table after insertWithCA; the iterator returned is Hash(icaoWithCA)
insertWithCA(table, icaoWithCA) ==
    [table EXCEPT ![Hash(icaoWithCA)].icao = icaoWithCA,
                  ![Hash(icaoWithCA)].trusted = 0]

findWithCA(table, icaoWithCA) ==
    IF EntryAt(table, Hash(icaoWithCA)).icao = icaoWithCA
    THEN Hash(icaoWithCA) ELSE InvalidIterator

find(table, icao) ==
    IF EntryAt(table, Hash(icao)).icao % 16777216 = icao
    THEN Hash(icao) ELSE InvalidIterator

\* markAsTrustedSeen that refreshes ttl only
markAsTrustedSeen_ttlOnly(table, entry) ==
    [table EXCEPT ![entry].ttl = TTL_not_trusted]

markAsTrustedSeen(table, entry) ==
    [table EXCEPT ![entry].ttl_trusted = TTL_trusted, ![entry].ttl = TTL_not_trusted]

markAsSeen(table, entry) == [table EXCEPT ![entry].ttl = TTL_not_trusted]

isAlive(table, entry) == EntryAt(table, entry).ttl > 0

isTrusted(table, entry) ==
    isAlive(table, entry) /\ EntryAt(table, entry).ttl_trusted > 0

\* checkSquawk that clears the squawk kept where checkSquawk replaces it
checkSquawk_clearOnMiss(sq, entry, newSquawk) ==
    IF sq[entry].squawk = newSquawk
    THEN [ok |-> TRUE, sq |-> [sq EXCEPT ![entry].squawk_cnt = 1]]
    ELSE IF sq[entry].squawk_cnt = 0
    THEN [ok |-> FALSE, sq |-> [sq EXCEPT ![entry].squawk = 0]]
    ELSE [ok |-> FALSE, sq |-> [sq EXCEPT ![entry].squawk_cnt = 0]]

\* checkSquawk and checkAltitude: ok is the value returned, sq the new m_squawkAlt
checkSquawk(sq, entry, newSquawk) ==
    IF sq[entry].squawk = newSquawk
    THEN [ok |-> TRUE, sq |-> [sq EXCEPT ![entry].squawk_cnt = 1]]
    ELSE IF sq[entry].squawk_cnt = 0
    THEN [ok |-> FALSE, sq |-> [sq EXCEPT ![entry].squawk = newSquawk % 8192]]
    ELSE [ok |-> FALSE, sq |-> [sq EXCEPT ![entry].squawk_cnt = 0]]

Abs(x) == IF x < 0 THEN -x ELSE x

\* checkAltitude that accepts the first altitude of an entry
checkAltitude_firstAccepted(sq, entry, newAlt) ==
    IF sq[entry].altitude = 0
    THEN [ok |-> TRUE,
          sq |-> [sq EXCEPT ![entry].altitude = newAlt % 8192, ![entry].altitude_cnt = 1]]
    ELSE IF Abs(sq[entry].altitude - newAlt) < ALT_delta_25ft
    THEN [ok |-> TRUE,
          sq |-> [sq EXCEPT ![entry].altitude = newAlt % 8192, ![entry].altitude_cnt = 1]]
    ELSE IF sq[entry].altitude_cnt = 1
    THEN [ok |-> FALSE, sq |-> [sq EXCEPT ![entry].altitude_cnt = 0]]
    ELSE IF sq[entry].altitude_cnt = 0
    THEN [ok |-> FALSE, sq |-> [sq EXCEPT ![entry].altitude = 0]]
    ELSE [ok |-> FALSE, sq |-> sq]

checkAltitude(sq, entry, newAlt) ==
    IF sq[entry].altitude = 0
    THEN [ok |-> FALSE,
          sq |-> [sq EXCEPT ![entry].altitude = newAlt % 8192, ![entry].altitude_cnt = 0]]
    ELSE IF Abs(sq[entry].altitude - newAlt) < ALT_delta_25ft
    THEN [ok |-> TRUE,
          sq |-> [sq EXCEPT ![entry].altitude = newAlt % 8192, ![entry].altitude_cnt = 1]]
    ELSE IF sq[entry].altitude_cnt = 1
    THEN [ok |-> FALSE, sq |-> [sq EXCEPT ![entry].altitude_cnt = 0]]
    ELSE IF sq[entry].altitude_cnt = 0
    THEN [ok |-> FALSE, sq |-> [sq EXCEPT ![entry].altitude = 0]]
    ELSE [ok |-> FALSE, sq |-> sq]

\* doResetEntry: c is the pair [table, sq]
doResetEntry(c, index) ==
    [table |-> [c.table EXCEPT ![index].trusted = 0,
                               ![index].ttl_trusted = 0,
                               ![index].icao = 0],
     sq    |-> [c.sq EXCEPT ![index] = EmptySquawkAlt]]

doTickForEntry(c, index) ==
    IF index \notin DOMAIN c.table \/ c.table[index].icao = 0 THEN c
    ELSE LET e  == c.table[index]
             t1 == IF e.ttl_trusted > 0
                   THEN [c.table EXCEPT ![index].ttl_trusted = e.ttl_trusted - 1]
                   ELSE [c.table EXCEPT ![index].trusted = 0]
         IN IF e.ttl > 0
            THEN [table |-> [t1 EXCEPT ![index].ttl = e.ttl - 1], sq |-> c.sq]
            ELSE doResetEntry([table |-> t1, sq |-> c.sq], index)

\* a tick() that has every call decay the bucket time1Mhz mod Size
tick_everyCall(c) ==
    LET t == (c.time1Mhz + 1) % TickPeriod
        r == doTickForEntry([table |-> c.table, sq |-> c.sq], t % Size)
    IN [table |-> r.table, sq |-> r.sq, time1Mhz |-> t]

\* tick(): c is [table, sq, time1Mhz]
tick(c) ==
    LET t == (c.time1Mhz + 1) % TickPeriod
    IN IF t >= Size
       THEN [table |-> c.table, sq |-> c.sq, time1Mhz |-> t]
       ELSE LET r == doTickForEntry([table |-> c.table, sq |-> c.sq], t)
            IN [table |-> r.table, sq |-> r.sq, time1Mhz |-> t]

(***************************************************************************)
(* The transmissions the receiver is fed: register windows holding Mode S  *)
(* frames with their true parity, and corrupted copies of them.            *)
(***************************************************************************)
\* DF, CA, ICAO in the clear, the 56-bit ME field, parity XOR err
LongFrame(df, ca, icao, me, err) ==
    LET data == shiftLeft(BitsOf(df), 107) \cup shiftLeft(BitsOf(ca), 104)
                \cup shiftLeft(BitsOf(icao), 80) \cup shiftLeft(me, 24)
    IN data \cup BitsOf(XorInt(compute(112, data), err))

\* DF, the 13-bit altitude/identity code, the 56-bit MB field, address parity
LongFrameAP(df, code, mb, icao) ==
    LET data == shiftLeft(BitsOf(df), 107) \cup shiftLeft(BitsOf(code), 80)
                \cup shiftLeft(mb, 24)
    IN data \cup BitsOf(XorInt(compute(112, data), icao))

ShortFrame(df, ca, icao, err) ==
    LET data == shiftLeft64(BitsOf(df), 51) \cup shiftLeft64(BitsOf(ca), 48)
                \cup shiftLeft64(BitsOf(icao), 24)
    IN data \cup BitsOf(XorInt(compute(56, data), err))

ShortFrameAP(df, code, icao) ==
    LET data == shiftLeft64(BitsOf(df), 51) \cup shiftLeft64(BitsOf(code), 24)
    IN data \cup BitsOf(XorInt(compute(56, data), icao))

\* the register window whose first 112 (56) bits are the frame
RegLong(frame) == shiftLeft(frame, 16)

RegShort(frameShort) == shiftLeft(frameShort, 72)

\* the 13-bit altitude code of n units of 25 ft (M = 0, Q = 1)
AltCode(n) == (n \div 32) * 128 + ((n \div 16) % 2) * 32 + 16 + (n % 16)

IcaoA == 1193046      \* 0x123456

IcaoB == 11220054     \* 0xAB3456, the bucket of IcaoA

CA5 == 5

KeyA == CA5 * 16777216 + IcaoA

KeyB == CA5 * 16777216 + IcaoB

ME1 == {3, 7, 8, 20, 33, 41, 55}

ME2 == {1, 7, 9, 21, 30, 41, 50}

W_DF17_A == RegLong(LongFrame(17, CA5, IcaoA, ME1, 0))

W_DF17_A2 == RegLong(LongFrame(17, CA5, IcaoA, ME2, 0))

W_DF17_B == RegLong(LongFrame(17, CA5, IcaoB, ME1, 0))

\* W_DF17_A with message bit 60 flipped, and with two distant bits flipped
W_DF17_A_bit60 == XorBits(W_DF17_A, {60 + 16})

W_DF17_B_bit60 == XorBits(W_DF17_B, {60 + 16})

W_DF17_A_bad == XorBits(W_DF17_A, {30 + 16, 70 + 16})

W_DF11_A == RegShort(ShortFrame(11, CA5, IcaoA, 0))

W_DF11_B == RegShort(ShortFrame(11, CA5, IcaoB, 0))

\* W_DF11_A with bit 30 flipped (repairable), and with parity bits 0 and 2 flipped
W_DF11_A_bit30 == XorBits(W_DF11_A, {30 + 72})

W_DF11_B_bit30 == XorBits(W_DF11_B, {30 + 72})

W_DF11_A_par == RegShort(ShortFrame(11, CA5, IcaoA, 5))

W_DF11_B_par == RegShort(ShortFrame(11, CA5, IcaoB, 5))

Alt1 == 1440

Alt2 == 1441

Alt3 == 2000

W_DF20_A_alt1 == RegLong(LongFrameAP(20, AltCode(Alt1), ME1, IcaoA))

W_DF20_A_alt2 == RegLong(LongFrameAP(20, AltCode(Alt2), ME1, IcaoA))

W_DF20_A_alt3 == RegLong(LongFrameAP(20, AltCode(Alt3), ME1, IcaoA))

\* short replies of IcaoA with address parity: its altitude (DF4) and its
\* identity code (DF5)
Squawk1 == 4660

W_DF4_A_alt1 == RegShort(ShortFrameAP(4, AltCode(Alt1), IcaoA))

W_DF5_A == RegShort(ShortFrameAP(5, Squawk1, IcaoA))

\* an address of another bucket, and what it sends with address parity: the
\* dispatcher examines these windows and finds no entry for them
IcaoOther == 1

W_DF4_Other == RegShort(ShortFrameAP(4, AltCode(Alt1), IcaoOther))

W_DF20_Other == RegLong(LongFrameAP(20, AltCode(Alt1), ME2, IcaoOther))

\* a window whose downlink format no handler takes (all ones: DF 31)
W_Noise == 0 .. 127

\* the buckets m_table and m_squawkAlt are kept for: those of the addresses above
Buckets == {Hash(KeyA), Hash(KeyB)}

Windows ==
    {W_DF17_A, W_DF17_A2, W_DF17_B, W_DF17_A_bit60, W_DF17_B_bit60, W_DF17_A_bad,
     W_DF11_A, W_DF11_B, W_DF11_A_bit30, W_DF11_B_bit30, W_DF11_A_par, W_DF11_B_par,
     W_DF20_A_alt1, W_DF20_A_alt2, W_DF20_A_alt3, W_DF4_Other, W_DF20_Other,
     W_DF4_A_alt1, W_DF5_A}

\* the windows that leave the table and the output alone whatever the state
Background == {W_Noise, W_DF4_Other, W_DF20_Other}

\* the transmissions on the air in the behaviours of each specification
TrustWindows == {W_DF17_A, W_DF11_B, W_DF11_A_bit30, W_DF17_A_bit60}

AllCallWindows == {W_DF11_A, W_DF11_A_par, W_DF17_A}

AltitudeWindows == {W_DF17_A, W_DF20_A_alt1, W_DF20_A_alt2, W_DF20_A_alt3}

PhaseWindows == {W_DF17_A, W_DF17_A2, W_DF17_B}

ParityWindows == {W_DF11_A, W_DF20_A_alt1, W_DF20_A_alt2, W_DF4_A_alt1, W_DF5_A}

(***************************************************************************)
(* ShiftRegisters.hpp, RegisterLayout_Left (the default build): what the   *)
(* dispatcher reads from the register of one phase.  reg is the 128-bit    *)
(* window; the message starts at bit 127.                                  *)
(***************************************************************************)
\* m_df_112 = m_high >> 59
getDF(reg) == Field(reg, 123, 5)

\* Bits128(m_high >> 16, (m_low >> 16) | (m_high << 48))
extractAlignedFrameLong(reg) == shiftRight(reg, 16)

\* m_high >> 8
extractAlignedFrameShort(reg) == shiftRight(reg, 72)

\* m_crc_112 and m_crc_56 as shiftInNewBits maintains them: the CRC of the first
\* 112 and of the first 56 bits of the window (computed once for each window
\* of the model)
RECURSIVE TabulateCRC(_, _, _)
TabulateCRC(numBits, shift, S) ==
    IF S = {} THEN <<>>
    ELSE LET w == CHOOSE x \in S : TRUE
         IN (w :> compute(numBits, shiftRight(w, shift)))
            @@ TabulateCRC(numBits, shift, S \ {w})

CRC_112_Of == TabulateCRC(112, 16, Windows \cup {W_Noise})

CRC_56_Of == TabulateCRC(56, 72, Windows \cup {W_Noise})

getCRC_112(reg) == CRC_112_Of[reg]

getCRC_56(reg) == CRC_56_Of[reg]

(***************************************************************************)
(* DemodCore.hpp.  d is the record of the members of DemodCore that the    *)
(* handlers read and write; each handler yields the members after the      *)
(* call.  out is what was written to std::cout, one record per line.       *)
(***************************************************************************)
NumStreams == 8

\* DemodCore<8>::currTimeTo12MhzTimeStamp
currTimeTo12MhzTimeStamp(currTime) == currTime + (currTime \div 2)

\* max(MessageStart_Long - MessageStart_Short, 0) * 12 for RegisterLayout<128, 128>
OffsetMLAT_Short == 0

OffsetMLAT_Long == 0

printFrameLongMLAT(d, frame) ==
    [d EXCEPT !.out = Append(@, [timeStamp |->
                                    currTimeTo12MhzTimeStamp(d.currTime) + OffsetMLAT_Long,
                                 frame |-> frame, long |-> TRUE])]

printFrameShortMLAT(d, frameShort) ==
    [d EXCEPT !.out = Append(@, [timeStamp |->
                                    currTimeTo12MhzTimeStamp(d.currTime) + OffsetMLAT_Short,
                                 frame |-> frameShort, long |-> FALSE])]

sendFrameLongAligned(d, downlinkFormat, frame, it) ==
    IF (d.currTime - d.prevTimeLongSent) < NumStreams /\ d.prevFrameLongSent = frame
    THEN d
    ELSE LET alt == checkAltitude(d.sq, it, decodeAltitude(extractSquawkAlt_Long(frame)))
             sqk == checkSquawk(d.sq, it, extractSquawkAlt_Long(frame))
             d1  == IF downlinkFormat \in {20, 16}
                    THEN [d EXCEPT !.sq = alt.sq,
                                   !.table = IF alt.ok THEN markAsSeen(@, it) ELSE @]
                    ELSE IF downlinkFormat = 21
                    THEN [d EXCEPT !.sq = sqk.sq,
                                   !.table = IF sqk.ok THEN markAsSeen(@, it) ELSE @]
                    ELSE d
         IN IF \/ downlinkFormat \in {20, 16} /\ ~alt.ok
               \/ downlinkFormat = 21 /\ ~sqk.ok
            THEN d1
            ELSE printFrameLongMLAT([d1 EXCEPT !.prevFrameLongSent = frame,
                                               !.prevTimeLongSent = d.currTime],
                                    frame)

sendFrameShortAligned(d, downlinkFormat, frameShort, it) ==
    IF (d.currTime - d.prevTimeShortSent) < NumStreams /\ d.prevFrameShortSent = frameShort
    THEN d
    ELSE LET alt == checkAltitude(d.sq, it, decodeAltitude(extractSquawkAlt_Short(frameShort)))
             sqk == checkSquawk(d.sq, it, extractSquawkAlt_Short(frameShort))
             d1  == IF downlinkFormat \in {4, 0}
                    THEN [d EXCEPT !.sq = alt.sq,
                                   !.table = IF alt.ok THEN markAsSeen(@, it) ELSE @]
                    ELSE IF downlinkFormat = 5
                    THEN [d EXCEPT !.sq = sqk.sq,
                                   !.table = IF sqk.ok THEN markAsSeen(@, it) ELSE @]
                    ELSE d
         IN IF \/ downlinkFormat \in {4, 0} /\ ~alt.ok
               \/ downlinkFormat = 5 /\ ~sqk.ok
            THEN d1
            ELSE printFrameShortMLAT([d1 EXCEPT !.prevFrameShortSent = frameShort,
                                                !.prevTimeShortSent = d.currTime],
                                     frameShort)

\* handleExtSquitterLongMessage taking a repaired frame for any address found
handleExtSquitterLongMessage_anyFound(d, reg, downlinkFormat) ==
    LET frame == extractAlignedFrameLong(reg)
        crc   == getCRC_112(reg)
        d0    == [d EXCEPT !.prevLongFrame = frame]
    IN IF frame = d.prevLongFrame THEN d
       ELSE IF crc = 0
       THEN LET icaoWithCA == extractICAOWithCA_Long(frame)
                e          == findWithCA(d0.table, icaoWithCA)
            IN IF isValid(e)
               THEN sendFrameLongAligned([d0 EXCEPT !.table = markAsTrustedSeen(@, e)],
                                         downlinkFormat, frame, e)
               ELSE [d0 EXCEPT !.table = markAsTrustedSeen(insertWithCA(@, icaoWithCA),
                                                           Hash(icaoWithCA))]
       ELSE LET fix_op     == lookup(df17ErrorTable, DF17Size, crc)
                toRepair   == applyFixOpLong(fix_op, frame, 0)
                icaoWithCA == extractICAOWithCA_Long(toRepair)
                e          == findWithCA(d0.table, icaoWithCA)
            IN IF valid(fix_op) /\ isValid(e)
               THEN sendFrameLongAligned([d0 EXCEPT !.table = markAsTrustedSeen(@, e)],
                                         downlinkFormat, toRepair, e)
               ELSE d0

handleExtSquitterLongMessage(d, reg, downlinkFormat) ==
    LET frame == extractAlignedFrameLong(reg)
        crc   == getCRC_112(reg)
        d0    == [d EXCEPT !.prevLongFrame = frame]
    IN IF frame = d.prevLongFrame THEN d          \* phaseDupCheckLong
       ELSE IF crc = 0
       THEN LET icaoWithCA == extractICAOWithCA_Long(frame)
                e          == findWithCA(d0.table, icaoWithCA)
            IN IF isValid(e)
               THEN sendFrameLongAligned([d0 EXCEPT !.table = markAsTrustedSeen(@, e)],
                                         downlinkFormat, frame, e)
               ELSE [d0 EXCEPT !.table = markAsTrustedSeen(insertWithCA(@, icaoWithCA),
                                                           Hash(icaoWithCA))]
       ELSE LET fix_op     == lookup(df17ErrorTable, DF17Size, crc)
                toRepair   == applyFixOpLong(fix_op, frame, 0)
                icaoWithCA == extractICAOWithCA_Long(toRepair)
                e          == findWithCA(d0.table, icaoWithCA)
            IN IF valid(fix_op) /\ isValid(e) /\ isTrusted(d0.table, e)
               THEN sendFrameLongAligned([d0 EXCEPT !.table = markAsTrustedSeen(@, e)],
                                         downlinkFormat, toRepair, e)
               ELSE d0

\* handleAcasCommBLongMessage that takes any entry found, alive or not
handleAcasCommBLongMessage_anyFound(d, reg, downlinkFormat) ==
    LET frame == extractAlignedFrameLong(reg)
        crc   == getCRC_112(reg)
        d0    == [d EXCEPT !.prevLongFrame = frame]
        e     == find(d0.table, crc)
    IN IF frame = d.prevLongFrame THEN d
       ELSE IF crc # 0 /\ isValid(e)
       THEN sendFrameLongAligned(d0, downlinkFormat, frame, e)
       ELSE d0

handleAcasCommBLongMessage(d, reg, downlinkFormat) ==
    LET frame == extractAlignedFrameLong(reg)
        crc   == getCRC_112(reg)
        d0    == [d EXCEPT !.prevLongFrame = frame]
        e     == find(d0.table, crc)
    IN IF frame = d.prevLongFrame THEN d          \* phaseDupCheckLong
       ELSE IF crc # 0 /\ isValid(e) /\ isAlive(d0.table, e)
       THEN sendFrameLongAligned(d0, downlinkFormat, frame, e)
       ELSE d0

\* handleAcasSurvShortMessage without phaseDupCheckShort's early return
handleAcasSurvShortMessage_noGate(d, reg, downlinkFormat) ==
    LET frameShort == extractAlignedFrameShort(reg)
        crc        == getCRC_56(reg)
        d0         == [d EXCEPT !.prevShortFrame = frameShort]
        e          == find(d0.table, crc)
    IN IF crc # 0 /\ isValid(e) /\ isAlive(d0.table, e)
       THEN sendFrameShortAligned(d0, downlinkFormat, frameShort, e)
       ELSE d0

handleAcasSurvShortMessage(d, reg, downlinkFormat) ==
    LET frameShort == extractAlignedFrameShort(reg)
        crc        == getCRC_56(reg)
        d0         == [d EXCEPT !.prevShortFrame = frameShort]
        e          == find(d0.table, crc)
    IN IF frameShort = d.prevShortFrame THEN d    \* phaseDupCheckShort
       ELSE IF crc # 0 /\ isValid(e) /\ isAlive(d0.table, e)
       THEN sendFrameShortAligned(d0, downlinkFormat, frameShort, e)
       ELSE d0

\* handleDF11ShortMessageWithZeroCRC that inserts a repaired address too
handleDF11ShortMessageWithZeroCRC_insertRepaired(d, frameShort, repaired) ==
    LET icaoWithCA == extractICAOWithCA_Short(frameShort)
        e          == findWithCA(d.table, icaoWithCA)
    IN IF ~isValid(e)
       THEN [d EXCEPT !.table = insertWithCA(@, icaoWithCA)]
       ELSE IF isAlive(d.table, e)
       THEN sendFrameShortAligned([d EXCEPT !.table = markAsSeen(@, e)], 11, frameShort, e)
       ELSE [d EXCEPT !.table = markAsSeen(@, e)]

handleDF11ShortMessageWithZeroCRC(d, frameShort, repaired) ==
    LET icaoWithCA == extractICAOWithCA_Short(frameShort)
        e          == findWithCA(d.table, icaoWithCA)
    IN IF ~isValid(e)
       THEN IF ~repaired THEN [d EXCEPT !.table = insertWithCA(@, icaoWithCA)] ELSE d
       ELSE IF isAlive(d.table, e)
       THEN sendFrameShortAligned([d EXCEPT !.table = markAsSeen(@, e)], 11, frameShort, e)
       ELSE [d EXCEPT !.table = markAsSeen(@, e)]

\* handleDF11ShortMessage whose last resort takes any address that is alive
handleDF11ShortMessage_anyAlive(d, reg) ==
    LET frameShort == extractAlignedFrameShort(reg)
        crc        == getCRC_56(reg)
        d0         == [d EXCEPT !.prevShortFrame = frameShort]
        fix_op     == lookup(df11ErrorTable, DF11Size, crc)
        icaoWithCA == extractICAOWithCA_Short(frameShort)
        e          == findWithCA(d0.table, icaoWithCA)
    IN IF frameShort = d.prevShortFrame THEN d
       ELSE IF crc = 0
       THEN handleDF11ShortMessageWithZeroCRC(d0, frameShort, FALSE)
       ELSE IF valid(fix_op)
       THEN handleDF11ShortMessageWithZeroCRC(d0, applyFixOpShort(fix_op, frameShort, 0),
                                              TRUE)
       ELSE IF isValid(e) /\ isAlive(d0.table, e)
       THEN sendFrameShortAligned([d0 EXCEPT !.table = markAsSeen(@, e)], 11,
                                  XorBits(frameShort, BitsOf(crc)), e)
       ELSE d0

handleDF11ShortMessage(d, reg) ==
    LET frameShort == extractAlignedFrameShort(reg)
        crc        == getCRC_56(reg)
        d0         == [d EXCEPT !.prevShortFrame = frameShort]
        fix_op     == lookup(df11ErrorTable, DF11Size, crc)
        icaoWithCA == extractICAOWithCA_Short(frameShort)
        e          == findWithCA(d0.table, icaoWithCA)
    IN IF frameShort = d.prevShortFrame THEN d    \* phaseDupCheckShort
       ELSE IF crc = 0
       THEN handleDF11ShortMessageWithZeroCRC(d0, frameShort, FALSE)
       ELSE IF valid(fix_op)
       THEN handleDF11ShortMessageWithZeroCRC(d0, applyFixOpShort(fix_op, frameShort, 0),
                                              TRUE)
       ELSE IF isValid(e) /\ isTrusted(d0.table, e)
       THEN sendFrameShortAligned([d0 EXCEPT !.table = markAsSeen(@, e)], 11,
                                  XorBits(frameShort, BitsOf(crc)), e)
       ELSE d0

\* the dispatcher of the layouts whose short and long messages start together
handleStream(d, reg) ==
    LET downlinkFormat == getDF(reg)
    IN IF downlinkFormat \in {0, 4, 5}
       THEN handleAcasSurvShortMessage(d, reg, downlinkFormat)
       ELSE IF downlinkFormat = 11
       THEN handleDF11ShortMessage(d, reg)
       ELSE IF downlinkFormat \in {17, 18, 19}
       THEN handleExtSquitterLongMessage(d, reg, downlinkFormat)
       ELSE IF downlinkFormat \in {16, 20, 21}
       THEN handleAcasCommBLongMessage(d, reg, downlinkFormat)
       ELSE d

(***************************************************************************)
(* Bounds of the model.                                                    *)
(***************************************************************************)
\* transmissions of the scenario handled in one behaviour
MaxHandled == 4

\* calls of shiftInNewBits followed phase by phase
MaxCalls == 2

\* stretches of calls with nothing but noise in one behaviour
MaxIdles == 2

\* the phases in which a window other than noise lines up
ActivePhases == {2, 3, 4}

\* the lengths of the stretches of noise, in seconds
IdleSeconds == {1, TTL_not_trusted}

(***************************************************************************)
(* State.                                                                  *)
(***************************************************************************)
VARIABLES
    m_table, m_squawkAlt, m_time1Mhz,            \* ICAOTable
    m_prevLongFrame, m_prevShortFrame,           \* DemodCore
    m_prevFrameLongSent, m_prevTimeLongSent,
    m_prevFrameShortSent, m_prevTimeShortSent,
    m_currTime,
    out,                                         \* the lines written to std::cout
    phase,        \* the index i of the loop of shiftInNewBits, NumStreams outside it
    reg,          \* the window of the register the dispatcher looked at last
    windows,      \* the transmissions on the air
    cleanES,      \* the ICAO+CA of the CRC-zero DF17/18/19 frames handled so far
    log,          \* the transmissions handled and the stretches of noise so far
    lastRx,       \* m_currTime when the last transmission was handled
    handled, calls, idles

demodVars ==
    <<m_table, m_squawkAlt, m_time1Mhz, m_prevLongFrame, m_prevShortFrame,
      m_prevFrameLongSent, m_prevTimeLongSent, m_prevFrameShortSent,
      m_prevTimeShortSent, m_currTime, out, phase, reg, windows, cleanES, log,
      lastRx, handled, calls, idles>>

VARIABLES
    ring_data,            \* RingBufferBase::m_data, BlockSize * NumBlocks cells
    ring_numFullBlocks,   \* RingBufferAsync::m_numFullBlocks
    ring_shutdown,        \* RingBufferAsync::m_shutdown
    writer_writePos,      \* RingBufferAsyncWriter::m_writePos
    writer_numFullBlocks, \* RingBufferAsyncWriter::m_numFullBlocks
    writer_pc,            \* where the producer is in write()
    newData,              \* write(): the value newData points at
    remaining,            \* write(): remaining
    numNewFullBlocks,     \* write(): numNewFullBlocks of the copy just made
    numWritten,           \* write(): numToWrite of the copy just made
    reader_numFullBlocks, \* RingBufferAsyncReader::m_numFullBlocks
    reader_readBlockIndex,\* RingBufferAsyncReader::m_readBlockIndex
    reader_pc,            \* where the consumer is in while (!eof()) process()
    consumed,             \* the values the callback of process() was handed
    committed,            \* the blocks passed to commitBlocks so far
    written,              \* the values copied into the ring so far, in order
    writes,               \* the calls of write() so far
    shutdownAtCall,       \* m_shutdown when the call of write() in progress began
    cv_waiting            \* the threads blocked inside m_condVar.wait

ringVars ==
    <<ring_data, ring_numFullBlocks, ring_shutdown, writer_writePos,
      writer_numFullBlocks, writer_pc, newData, remaining, numNewFullBlocks,
      numWritten, reader_numFullBlocks, reader_readBlockIndex, reader_pc,
      consumed, committed, written, writes, shutdownAtCall, cv_waiting>>

VARIABLES
    g_shutdownRequested,  \* Global.hpp: g_shutdownRequested
    committedAtRequest    \* the blocks committed when the signal arrived

mainVars == <<g_shutdownRequested, committedAtRequest>>

VARIABLES
    m_low, m_high,        \* ShiftRegisters<NumStreams, RegisterLayout_Right>, per stream
    m_df_56, m_df_112,
    m_crc_56, m_crc_112,
    shifts                \* the calls of shiftInNewBits so far

rightVars == <<m_low, m_high, m_df_56, m_df_112, m_crc_56, m_crc_112, shifts>>

VARIABLES
    t_which,              \* the table under construction: "df17" or "df11"
    t_table,              \* BaseErrorTable: m_keys, m_ops
    t_todo,               \* the fix-ops the constructor still passes to insert
    t_done,               \* the fix-ops passed to insert so far, with their crc
    lk_crc, lk_result     \* the last call of lookup and what it returned

tableVars == <<t_which, t_table, t_todo, t_done, lk_crc, lk_result>>

VARIABLES
    d_bitIndex,           \* CRC::delta<bitIndex>(): the template argument
    d_i, d_crc            \* its loop counter and its crc

deltaVars == <<d_bitIndex, d_i, d_crc>>

VARIABLES
    m_bits,               \* Bits128::m_bits: m_bits[0] the low, m_bits[1] the high word
    bits0,                \* the value m_bits started with
    shiftedBy,            \* the sum of the arguments of shiftLeft(int) so far
    shiftCalls            \* the calls of shiftLeft(int) so far

bitsVars == <<m_bits, bits0, shiftedBy, shiftCalls>>

VARIABLES
    ticks,                \* the calls of shiftInNewBits on noise so far
    sinceVisit,           \* per bucket: the calls since doTickForEntry last changed it
    visitCount            \* per bucket: the calls in which doTickForEntry changed it

tickVars == <<ticks, sinceVisit, visitCount>>

VARIABLES
    fx_long,              \* a long frame (DF17, Bits128) or a short one (DF11, uint64_t)
    fx_op,                \* the error pattern the transmission suffered
    fx_frame,             \* the frame received
    fx_result,            \* the frame after applyFixOp
    fx_pc                 \* "received", then "repaired" or "dropped"

fixVars == <<fx_long, fx_op, fx_frame, fx_result, fx_pc>>

VARIABLES
    cacheLog              \* the calls made on the ICAOTable so far and what they returned

cacheVars == <<cacheLog>>

VARIABLES
    stamp                 \* DemodCore<NumStreams> of either layout: m_currTime, the index
                          \* i of the loop of shiftInNewBits and the timestamps written

stampVars == <<stamp>>

moreVars == <<cacheVars, stampVars>>

unitVars == <<rightVars, tableVars, deltaVars, bitsVars, tickVars, fixVars, moreVars>>

vars == <<demodVars, ringVars, mainVars, unitVars>>

\* the members as the record the handlers work on
Members ==
    [table |-> m_table, sq |-> m_squawkAlt,
     prevLongFrame |-> m_prevLongFrame, prevShortFrame |-> m_prevShortFrame,
     prevFrameLongSent |-> m_prevFrameLongSent, prevTimeLongSent |-> m_prevTimeLongSent,
     prevFrameShortSent |-> m_prevFrameShortSent,
     prevTimeShortSent |-> m_prevTimeShortSent,
     currTime |-> m_currTime, out |-> out]

SetMembers(d) ==
    /\ m_table' = d.table
    /\ m_squawkAlt' = d.sq
    /\ m_prevLongFrame' = d.prevLongFrame
    /\ m_prevShortFrame' = d.prevShortFrame
    /\ m_prevFrameLongSent' = d.prevFrameLongSent
    /\ m_prevTimeLongSent' = d.prevTimeLongSent
    /\ m_prevFrameShortSent' = d.prevFrameShortSent
    /\ m_prevTimeShortSent' = d.prevTimeShortSent
    /\ m_currTime' = d.currTime
    /\ out' = d.out

\* m_prevShortFrame and m_prevFrameShortSent have no initializer and DemodCore()
\* sets nothing: they start with any value
Uninitialized == {{}, extractAlignedFrameShort(W_DF11_A)}

InitDemod ==
    /\ m_table = [b \in Buckets |-> EmptyEntry]
    /\ m_squawkAlt = [b \in Buckets |-> EmptySquawkAlt]
    /\ m_time1Mhz = 0
    /\ m_prevLongFrame = {}
    /\ m_prevShortFrame \in Uninitialized
    /\ m_prevFrameLongSent = {}
    /\ m_prevTimeLongSent = 0
    /\ m_prevFrameShortSent \in Uninitialized
    /\ m_prevTimeShortSent = 0
    /\ m_currTime = 0
    /\ out = <<>>
    /\ phase = NumStreams
    /\ reg = {}
    /\ cleanES = {}
    /\ log = <<>>
    /\ lastRx = 0
    /\ handled = 0
    /\ calls = 0
    /\ idles = 0

(***************************************************************************)
(* DemodCore::shiftInNewBits, one action per step of it.                   *)
(***************************************************************************)
\* m_shiftRegisters.shiftInNewBits(cmp); m_cache.tick(); and the loop starts
ShiftInNewBits ==
    /\ phase = NumStreams
    /\ calls < MaxCalls
    /\ LET c == tick([table |-> m_table, sq |-> m_squawkAlt, time1Mhz |-> m_time1Mhz])
       IN /\ m_table' = c.table
          /\ m_squawkAlt' = c.sq
          /\ m_time1Mhz' = c.time1Mhz
    /\ phase' = 0
    /\ calls' = calls + 1
    /\ UNCHANGED <<m_prevLongFrame, m_prevShortFrame, m_prevFrameLongSent,
                   m_prevTimeLongSent, m_prevFrameShortSent, m_prevTimeShortSent,
                   m_currTime, out, reg, windows, cleanES, log, lastRx, handled, idles>>
    /\ UNCHANGED ringVars
    /\ UNCHANGED mainVars
    /\ UNCHANGED unitVars

\* one round of the loop: handleStream(i); m_currTime++ with the register of
\* phase i holding the window w
HandleStream(w) ==
    /\ phase < NumStreams
    /\ w # W_Noise => phase \in ActivePhases
    /\ w \notin Background => handled < MaxHandled
    /\ reg' = w
    /\ LET d == handleStream(Members, w)
       IN SetMembers([d EXCEPT !.currTime = @ + 1])
    /\ phase' = phase + 1
    /\ handled' = IF w \notin Background THEN handled + 1 ELSE handled
    /\ cleanES' = IF getDF(w) \in {17, 18, 19} /\ getCRC_112(w) = 0
                  THEN cleanES \cup {extractICAOWithCA_Long(extractAlignedFrameLong(w))}
                  ELSE cleanES
    /\ log' = IF w \notin Background
              THEN Append(log, [w |-> w, idle |-> 0,
                                dup |-> \/ m_prevLongFrame = extractAlignedFrameLong(w)
                                        \/ m_prevShortFrame = extractAlignedFrameShort(w)])
              ELSE log
    /\ lastRx' = IF w \notin Background THEN m_currTime ELSE lastRx
    /\ UNCHANGED <<m_time1Mhz, windows, calls, idles>>
    /\ UNCHANGED ringVars
    /\ UNCHANGED mainVars
    /\ UNCHANGED unitVars

\* the table after the sweep visited bucket b n times
RECURSIVE TickTimes(_, _, _)
TickTimes(c, b, n) == IF n = 0 THEN c ELSE TickTimes(doTickForEntry(c, b), b, n - 1)

\* s * TickPeriod calls of shiftInNewBits in a row, all registers holding
\* W_Noise throughout: tick() comes by every bucket s times.  Noise before
\* the first transmission is not followed: it moves nothing but the clocks.
IdleCalls(s) ==
    /\ phase = NumStreams
    /\ idles < MaxIdles
    /\ log # <<>>
    /\ LET RECURSIVE sweep(_, _)
           sweep(c, bs) == IF bs = {} THEN c
                           ELSE LET b == CHOOSE x \in bs : TRUE
                                IN sweep(TickTimes(c, b, s), bs \ {b})
           c1 == sweep([table |-> m_table, sq |-> m_squawkAlt], Buckets)
       IN /\ m_table' = c1.table
          /\ m_squawkAlt' = c1.sq
    /\ m_time1Mhz' = (m_time1Mhz + s * TickPeriod) % TickPeriod
    /\ m_currTime' = m_currTime + s * TickPeriod * NumStreams
    /\ reg' = W_Noise
    /\ idles' = idles + 1
    /\ log' = Append(log, [w |-> {}, idle |-> s, dup |-> FALSE])
    /\ UNCHANGED <<m_prevLongFrame, m_prevShortFrame, m_prevFrameLongSent,
                   m_prevTimeLongSent, m_prevFrameShortSent, m_prevTimeShortSent,
                   out, phase, windows, cleanES, lastRx, handled, calls>>
    /\ UNCHANGED ringVars
    /\ UNCHANGED mainVars
    /\ UNCHANGED unitVars

(***************************************************************************)
(* RingBuffer.hpp: RingBufferAsync with its one writer and one reader.     *)
(* The producer thread calls Writer::write on the counter stream 1, 2, ... *)
(* the consumer thread runs while (!eof()) process(callback), and any      *)
(* thread may call shutdown().  One action per stretch of code between two *)
(* accesses to what the threads share (the mutex-protected members and     *)
(* m_data).                                                                *)
(***************************************************************************)
\* the template parameters of the ring
BlockSize == 2

NumBlocks == 3

\* calls of write() in one behaviour
MaxWrites == 2

bufferSize == BlockSize * NumBlocks

\* the n of the calls of write(): less than a block, more than a block, three
\* times the capacity of the ring
WriteSizes == {1, BlockSize + 1, 3 * bufferSize}

Min(a, b) == IF a < b THEN a ELSE b

\* usedElems that leaves out the block being filled
usedElems_noPartial(numFullBlocks, writePos) == numFullBlocks * BlockSize

\* write(): usedElems and freeElems, from the local state of the writer
usedElems(numFullBlocks, writePos) ==
    (numFullBlocks * BlockSize) + (writePos % BlockSize)

freeElems(numFullBlocks, writePos) == bufferSize - usedElems(numFullBlocks, writePos)

\* numToWrite that takes all that remains, free or not
numToWrite_all(rem, free) == rem

\* write(): numToWrite
numToWrite(rem, free) == Min(rem, free)

\* RingBufferBase::write: the n values first, first + 1, ... copied to
\* startIndex and on, wrapping around
ringWrite(data, startIndex, first, n) ==
    [i \in 0 .. bufferSize - 1 |->
        IF (i - startIndex) % bufferSize < n
        THEN first + ((i - startIndex) % bufferSize)
        ELSE data[i]]

\* RingBufferBase::begin(blockIndex) as the callback reads it: the block
block(data, blockIndex) ==
    [j \in 1 .. BlockSize |-> data[blockIndex * BlockSize + j - 1]]

\* g_shutdownRequested{false}
InitMain ==
    /\ g_shutdownRequested = FALSE
    /\ committedAtRequest = 0

InitRing ==
    /\ ring_data = [i \in 0 .. bufferSize - 1 |-> 0]
    /\ ring_numFullBlocks = 0
    /\ ring_shutdown = FALSE
    /\ writer_writePos = 0
    /\ writer_numFullBlocks = 0
    /\ writer_pc = "idle"
    /\ newData = 1
    /\ remaining = 0
    /\ numNewFullBlocks = 0
    /\ numWritten = 0
    /\ reader_numFullBlocks = 0
    /\ reader_readBlockIndex = 0
    /\ reader_pc = "eof"
    /\ consumed = <<>>
    /\ committed = 0
    /\ written = <<>>
    /\ writes = 0
    /\ shutdownAtCall = FALSE
    /\ cv_waiting = {}

writerVars ==
    <<writer_writePos, writer_numFullBlocks, writer_pc, newData, remaining,
      numNewFullBlocks, numWritten, writes, shutdownAtCall>>

readerVars == <<reader_numFullBlocks, reader_readBlockIndex, reader_pc, consumed>>

\* a notify_one() that reaches no thread
notify_one_lost(waiting) == {waiting}

\* m_condVar.notify_one(): one of the threads waiting, if any, is woken; the
\* sets of threads that may be left waiting.  (shutdown() calls notify_all().
\* A spurious wake-up puts a thread where it was before it went to sleep, in
\* front of its predicate: it adds no state.)
notify_one(waiting) == IF waiting = {} THEN {{}} ELSE {waiting \ {t} : t \in waiting}

\* the producer calls write(newData, n)
Write(n) ==
    /\ writer_pc = "idle"
    /\ writes < MaxWrites
    /\ writes' = writes + 1
    /\ shutdownAtCall' = ring_shutdown
    /\ remaining' = n
    /\ writer_pc' = "loop"
    /\ UNCHANGED <<ring_data, ring_numFullBlocks, ring_shutdown, writer_writePos,
                   writer_numFullBlocks, newData, numNewFullBlocks, numWritten,
                   committed, written>>
    /\ UNCHANGED cv_waiting
    /\ UNCHANGED readerVars
    /\ UNCHANGED demodVars
    /\ UNCHANGED mainVars
    /\ UNCHANGED unitVars

\* while (remaining > 0) is false: return n
WriteReturn ==
    /\ writer_pc = "loop"
    /\ remaining = 0
    /\ writer_pc' = "idle"
    /\ UNCHANGED <<ring_data, ring_numFullBlocks, ring_shutdown, writer_writePos,
                   writer_numFullBlocks, newData, remaining, numNewFullBlocks,
                   numWritten, committed, written, writes, shutdownAtCall>>
    /\ UNCHANGED cv_waiting
    /\ UNCHANGED readerVars
    /\ UNCHANGED demodVars
    /\ UNCHANGED mainVars
    /\ UNCHANGED unitVars

\* freeElems == 0: on to waitForSpace(1)
WriteFull ==
    /\ writer_pc = "loop"
    /\ remaining > 0
    /\ freeElems(writer_numFullBlocks, writer_writePos) = 0
    /\ writer_pc' = "wait"
    /\ UNCHANGED <<ring_data, ring_numFullBlocks, ring_shutdown, writer_writePos,
                   writer_numFullBlocks, newData, remaining, numNewFullBlocks,
                   numWritten, committed, written, writes, shutdownAtCall>>
    /\ UNCHANGED cv_waiting
    /\ UNCHANGED readerVars
    /\ UNCHANGED demodVars
    /\ UNCHANGED mainVars
    /\ UNCHANGED unitVars

\* waitForSpace(1) whose predicate leaves m_shutdown out
WaitForSpace_noShutdown ==
    /\ writer_pc = "wait"
    /\ "producer" \notin cv_waiting
    /\ (NumBlocks - ring_numFullBlocks) > 1
    /\ IF ring_numFullBlocks = NumBlocks
       THEN /\ remaining' = 0
            /\ newData' = newData + remaining
            /\ UNCHANGED writer_numFullBlocks
       ELSE /\ writer_numFullBlocks' = ring_numFullBlocks
            /\ UNCHANGED <<remaining, newData>>
    /\ writer_pc' = "loop"
    /\ UNCHANGED <<ring_data, ring_numFullBlocks, ring_shutdown, writer_writePos,
                   numNewFullBlocks, numWritten, committed, written, writes, shutdownAtCall>>
    /\ UNCHANGED cv_waiting
    /\ UNCHANGED readerVars
    /\ UNCHANGED demodVars
    /\ UNCHANGED mainVars
    /\ UNCHANGED unitVars

\* waitForSpace(1) returns: m_shutdown || (NumBlocks - m_numFullBlocks) > 1;
\* then the bail-out or the update of the local count, and continue
WaitForSpace ==
    /\ writer_pc = "wait"
    /\ "producer" \notin cv_waiting
    /\ ring_shutdown \/ (NumBlocks - ring_numFullBlocks) > 1
    /\ IF ring_numFullBlocks = NumBlocks
       THEN /\ remaining' = 0
            /\ newData' = newData + remaining
            /\ UNCHANGED writer_numFullBlocks
       ELSE /\ writer_numFullBlocks' = ring_numFullBlocks
            /\ UNCHANGED <<remaining, newData>>
    /\ writer_pc' = "loop"
    /\ UNCHANGED <<ring_data, ring_numFullBlocks, ring_shutdown, writer_writePos,
                   numNewFullBlocks, numWritten, committed, written, writes, shutdownAtCall>>
    /\ UNCHANGED cv_waiting
    /\ UNCHANGED readerVars
    /\ UNCHANGED demodVars
    /\ UNCHANGED mainVars
    /\ UNCHANGED unitVars

\* m_ring.write(m_writePos, newData, numToWrite) and the new m_writePos
WriteCopy ==
    /\ writer_pc = "loop"
    /\ remaining > 0
    /\ freeElems(writer_numFullBlocks, writer_writePos) # 0
    /\ LET n == numToWrite(remaining, freeElems(writer_numFullBlocks, writer_writePos))
       IN /\ ring_data' = ringWrite(ring_data, writer_writePos, newData, n)
          /\ writer_writePos' = (writer_writePos + n) % bufferSize
          /\ numNewFullBlocks' = ((writer_writePos % BlockSize) + n) \div BlockSize
          /\ numWritten' = n
          /\ written' = written \o [i \in 1 .. n |-> newData + i - 1]
    /\ writer_pc' = "commit"
    /\ UNCHANGED <<ring_numFullBlocks, ring_shutdown, writer_numFullBlocks, newData,
                   remaining, committed, writes, shutdownAtCall>>
    /\ UNCHANGED cv_waiting
    /\ UNCHANGED readerVars
    /\ UNCHANGED demodVars
    /\ UNCHANGED mainVars
    /\ UNCHANGED unitVars

\* if (numNewFullBlocks > 0) m_numFullBlocks = m_ring.commitBlocks(...); then
\* newData += numToWrite; remaining -= numToWrite
WriteCommit ==
    /\ writer_pc = "commit"
    /\ IF numNewFullBlocks > 0
       THEN /\ ring_numFullBlocks' = ring_numFullBlocks + numNewFullBlocks
            /\ writer_numFullBlocks' = ring_numFullBlocks + numNewFullBlocks
            /\ committed' = committed + numNewFullBlocks
            /\ cv_waiting' \in notify_one(cv_waiting)
       ELSE UNCHANGED <<ring_numFullBlocks, writer_numFullBlocks, committed, cv_waiting>>
    /\ newData' = newData + numWritten
    /\ remaining' = remaining - numWritten
    /\ writer_pc' = "loop"
    /\ UNCHANGED <<ring_data, ring_shutdown, writer_writePos, numNewFullBlocks,
                   numWritten, written, writes, shutdownAtCall>>
    /\ UNCHANGED readerVars
    /\ UNCHANGED demodVars
    /\ UNCHANGED mainVars
    /\ UNCHANGED unitVars

\* InputBufferReader::eof(): m_reader.eof() || shutdownRequested().  eof() of
\* the reader: the local count says there is work; then the flag is read
EofLocal ==
    /\ reader_pc = "eof"
    /\ reader_numFullBlocks > 0
    /\ reader_pc' = IF g_shutdownRequested THEN "exit" ELSE "process"
    /\ UNCHANGED <<ring_data, ring_numFullBlocks, ring_shutdown, reader_numFullBlocks,
                   reader_readBlockIndex, consumed, committed, written>>
    /\ UNCHANGED cv_waiting
    /\ UNCHANGED writerVars
    /\ UNCHANGED demodVars
    /\ UNCHANGED mainVars
    /\ UNCHANGED unitVars

\* eof() whose waitForNewBlocks() does not wait
EofWait_noWait ==
    /\ reader_pc = "eof"
    /\ reader_numFullBlocks = 0
    /\ reader_numFullBlocks' = ring_numFullBlocks
    /\ reader_pc' = IF ring_numFullBlocks = 0 THEN "done"
                   ELSE IF g_shutdownRequested THEN "exit" ELSE "process"
    /\ UNCHANGED <<ring_data, ring_numFullBlocks, ring_shutdown, reader_readBlockIndex,
                   consumed, committed, written>>
    /\ UNCHANGED cv_waiting
    /\ UNCHANGED writerVars
    /\ UNCHANGED demodVars
    /\ UNCHANGED mainVars
    /\ UNCHANGED unitVars

\* eof(): waitForNewBlocks() returns: m_shutdown || m_numFullBlocks > 0; the
\* flag is read when the reader says there is a block
EofWait ==
    /\ reader_pc = "eof"
    /\ reader_numFullBlocks = 0
    /\ "consumer" \notin cv_waiting
    /\ ring_shutdown \/ ring_numFullBlocks > 0
    /\ reader_numFullBlocks' = ring_numFullBlocks
    /\ reader_pc' = IF ring_numFullBlocks = 0 THEN "done"
                   ELSE IF g_shutdownRequested THEN "exit" ELSE "process"
    /\ UNCHANGED <<ring_data, ring_numFullBlocks, ring_shutdown, reader_readBlockIndex,
                   consumed, committed, written>>
    /\ UNCHANGED cv_waiting
    /\ UNCHANGED writerVars
    /\ UNCHANGED demodVars
    /\ UNCHANGED mainVars
    /\ UNCHANGED unitVars

\* process(): processingFunc(m_ring.begin(m_readBlockIndex))
ProcessCallback ==
    /\ reader_pc = "process"
    /\ IF reader_numFullBlocks > 0
       THEN /\ consumed' = consumed \o block(ring_data, reader_readBlockIndex)
            /\ reader_pc' = "consume"
       ELSE /\ reader_pc' = "eof"
            /\ UNCHANGED consumed
    /\ UNCHANGED <<ring_data, ring_numFullBlocks, ring_shutdown, reader_numFullBlocks,
                   reader_readBlockIndex, committed, written>>
    /\ UNCHANGED cv_waiting
    /\ UNCHANGED writerVars
    /\ UNCHANGED demodVars
    /\ UNCHANGED mainVars
    /\ UNCHANGED unitVars

\* process() that releases the block and stays on it
ProcessConsume_sameBlock ==
    /\ reader_pc = "consume"
    /\ ring_numFullBlocks' = ring_numFullBlocks - 1
    /\ reader_numFullBlocks' = ring_numFullBlocks - 1
    /\ cv_waiting' \in notify_one(cv_waiting)
    /\ reader_pc' = "eof"
    /\ UNCHANGED <<ring_data, ring_shutdown, reader_readBlockIndex, consumed,
                   committed, written>>
    /\ UNCHANGED writerVars
    /\ UNCHANGED demodVars
    /\ UNCHANGED mainVars
    /\ UNCHANGED unitVars

\* process(): the new m_readBlockIndex and m_numFullBlocks = consumeBlocks(1)
ProcessConsume ==
    /\ reader_pc = "consume"
    /\ reader_readBlockIndex' = (reader_readBlockIndex + 1) % NumBlocks
    /\ ring_numFullBlocks' = ring_numFullBlocks - 1
    /\ reader_numFullBlocks' = ring_numFullBlocks - 1
    /\ cv_waiting' \in notify_one(cv_waiting)
    /\ reader_pc' = "eof"
    /\ UNCHANGED <<ring_data, ring_shutdown, consumed, committed, written>>
    /\ UNCHANGED writerVars
    /\ UNCHANGED demodVars
    /\ UNCHANGED mainVars
    /\ UNCHANGED unitVars

\* RingBufferAsync::shutdown(), from any thread
Shutdown ==
    /\ ~ring_shutdown
    /\ ring_shutdown' = TRUE
    /\ cv_waiting' = {}
    /\ UNCHANGED <<ring_data, ring_numFullBlocks, committed, written>>
    /\ UNCHANGED writerVars
    /\ UNCHANGED readerVars
    /\ UNCHANGED demodVars
    /\ UNCHANGED mainVars
    /\ UNCHANGED unitVars

\* waitForSpace(1): the predicate of m_condVar.wait is false and the producer
\* goes to sleep
WaitForSpaceSleep ==
    /\ writer_pc = "wait"
    /\ "producer" \notin cv_waiting
    /\ ~(ring_shutdown \/ (NumBlocks - ring_numFullBlocks) > 1)
    /\ cv_waiting' = cv_waiting \cup {"producer"}
    /\ UNCHANGED <<ring_data, ring_numFullBlocks, ring_shutdown, committed, written>>
    /\ UNCHANGED writerVars
    /\ UNCHANGED readerVars
    /\ UNCHANGED demodVars
    /\ UNCHANGED mainVars
    /\ UNCHANGED unitVars

\* waitForNewBlocks(): the predicate of m_condVar.wait is false and the consumer
\* goes to sleep
WaitForNewBlocksSleep ==
    /\ reader_pc = "eof"
    /\ reader_numFullBlocks = 0
    /\ "consumer" \notin cv_waiting
    /\ ~(ring_shutdown \/ ring_numFullBlocks > 0)
    /\ cv_waiting' = cv_waiting \cup {"consumer"}
    /\ UNCHANGED <<ring_data, ring_numFullBlocks, ring_shutdown, committed, written>>
    /\ UNCHANGED writerVars
    /\ UNCHANGED readerVars
    /\ UNCHANGED demodVars
    /\ UNCHANGED mainVars
    /\ UNCHANGED unitVars

NextRing ==
    \/ \E n \in WriteSizes : Write(n)
    \/ WriteReturn
    \/ WriteFull
    \/ WaitForSpace
    \/ WaitForSpaceSleep
    \/ WriteCopy
    \/ WriteCommit
    \/ EofLocal
    \/ EofWait
    \/ WaitForNewBlocksSleep
    \/ ProcessCallback
    \/ ProcessConsume
    \/ Shutdown

(***************************************************************************)
(* ShiftRegisters.hpp: the right-aligned layout, RegisterLayout<56, 112>.  *)
(* m_low and m_high are 64-bit words, kept as the sets of their one bits.  *)
(***************************************************************************)
\* the residue of bit 112
delta_111_bit112 == shiftReduceTimes(1, 112)

\* CRC::delta<111>()
delta_111 == 3749354     \* 0x3935EA

\* CRC::delta<55>()
delta_55 == 99687        \* 0x18567

\* the streams of the register bank
RightPhases == {0, 1}

\* the calls of shiftInNewBits in which a stream may receive a one; every
\* other bit shifted in is a zero
OneTimes == {0, 1, 56, 57, 112}

MaxShifts == 116

\* Bits128(h, l)
Bits128(h, l) == l \cup {b + 64 : b \in h}

\* extractFrame(i)
extractFrame(i) == Bits128(m_high[i], m_low[i])

\* one round of the loop of shiftInNewBits, for the stream with the members
\* r and the new bit c.  The crcs are below 2^24 before the round and below
\* 2^25 after the shift: the 32 bits of crc_t lose nothing
shiftInStream(r, c) ==
    LET crc112a == IF 47 \in r.high THEN XorInt(r.crc_112, delta_111) ELSE r.crc_112
        crc56a  == IF 55 \in r.low THEN XorInt(r.crc_56, delta_55) ELSE r.crc_56
        high    == shiftLeft64(r.high, 1) \cup shiftRight(r.low, 63)
        low     == shiftLeft64(r.low, 1) \cup BitsOf(c)
        crc112b == (2 * crc112a) + c
        crc56b  == (2 * crc56a) + c
    IN [high    |-> high,
        low     |-> low,
        df_112  |-> Field(high, 43, 5),
        df_56   |-> Field(low, 51, 5),
        crc_112 |-> IF crc112b > 16777215 THEN XorInt(crc112b, polynomial) ELSE crc112b,
        crc_56  |-> IF crc56b > 16777215 THEN XorInt(crc56b, polynomial) ELSE crc56b]

\* ShiftRegistersBase(): everything zero
InitRight ==
    /\ m_low = [i \in RightPhases |-> {}]
    /\ m_high = [i \in RightPhases |-> {}]
    /\ m_df_56 = [i \in RightPhases |-> 0]
    /\ m_df_112 = [i \in RightPhases |-> 0]
    /\ m_crc_56 = [i \in RightPhases |-> 0]
    /\ m_crc_112 = [i \in RightPhases |-> 0]
    /\ shifts = 0

\* shiftInNewBits(cmp) of the right-aligned layout
ShiftInNewBitsRight(cmp) ==
    /\ shifts < MaxShifts
    /\ \A i \in RightPhases : cmp[i] = 1 => shifts \in OneTimes
    /\ LET r == [i \in RightPhases |->
                    shiftInStream([high |-> m_high[i], low |-> m_low[i],
                                   crc_112 |-> m_crc_112[i], crc_56 |-> m_crc_56[i]],
                                  cmp[i])]
       IN /\ m_high' = [i \in RightPhases |-> r[i].high]
          /\ m_low' = [i \in RightPhases |-> r[i].low]
          /\ m_df_112' = [i \in RightPhases |-> r[i].df_112]
          /\ m_df_56' = [i \in RightPhases |-> r[i].df_56]
          /\ m_crc_112' = [i \in RightPhases |-> r[i].crc_112]
          /\ m_crc_56' = [i \in RightPhases |-> r[i].crc_56]
    /\ shifts' = shifts + 1
    /\ UNCHANGED <<tableVars, deltaVars, bitsVars>>
    /\ UNCHANGED <<demodVars, ringVars, mainVars>>
    /\ UNCHANGED <<tickVars, fixVars, moreVars>>

NextRight == \E cmp \in [RightPhases -> {0, 1}] : ShiftInNewBitsRight(cmp)

(***************************************************************************)
(* ShiftRegisters.hpp: the left-aligned layout, RegisterLayout<128, 128>,  *)
(* the layout of the default build.  The members are those of              *)
(* ShiftRegistersBase, as in the right-aligned layout.                     *)
(***************************************************************************)
MaxShiftsLeft == 132

\* one round of the loop of shiftInNewBits with bit 8 of m_high fed to the
\* short crc
shiftInStreamLeft_bit8(r, c) ==
    LET top     == r.df_112 > 15
        crc56a  == IF top THEN XorInt(r.crc_56, delta_55) ELSE r.crc_56
        crc112a == IF top THEN XorInt(r.crc_112, delta_111) ELSE r.crc_112
        crc56b  == (2 * crc56a) + Field(r.high, 8, 1)
        crc112b == (2 * crc112a) + Field(r.low, 15, 1)
        high    == shiftLeft64(r.high, 1) \cup shiftRight(r.low, 63)
        low     == shiftLeft64(r.low, 1) \cup BitsOf(c)
    IN [high    |-> high,
        low     |-> low,
        df_112  |-> Field(high, 59, 5),
        df_56   |-> r.df_56,
        crc_112 |-> IF crc112b > 16777215 THEN XorInt(crc112b, polynomial) ELSE crc112b,
        crc_56  |-> IF crc56b > 16777215 THEN XorInt(crc56b, polynomial) ELSE crc56b]

\* one round of the loop of shiftInNewBits, for the stream with the members
\* r and the new bit c.  m_df_56 is not written in this layout
shiftInStreamLeft(r, c) ==
    LET top     == r.df_112 > 15
        crc56a  == IF top THEN XorInt(r.crc_56, delta_55) ELSE r.crc_56
        crc112a == IF top THEN XorInt(r.crc_112, delta_111) ELSE r.crc_112
        crc56b  == (2 * crc56a) + Field(r.high, 7, 1)
        crc112b == (2 * crc112a) + Field(r.low, 15, 1)
        high    == shiftLeft64(r.high, 1) \cup shiftRight(r.low, 63)
        low     == shiftLeft64(r.low, 1) \cup BitsOf(c)
    IN [high    |-> high,
        low     |-> low,
        df_112  |-> Field(high, 59, 5),
        df_56   |-> r.df_56,
        crc_112 |-> IF crc112b > 16777215 THEN XorInt(crc112b, polynomial) ELSE crc112b,
        crc_56  |-> IF crc56b > 16777215 THEN XorInt(crc56b, polynomial) ELSE crc56b]

\* shiftInNewBits(cmp) of the left-aligned layout
ShiftInNewBitsLeft(cmp) ==
    /\ shifts < MaxShiftsLeft
    /\ \A i \in RightPhases : cmp[i] = 1 => shifts \in OneTimes
    /\ LET r == [i \in RightPhases |->
                    shiftInStreamLeft([high |-> m_high[i], low |-> m_low[i],
                                       df_112 |-> m_df_112[i], df_56 |-> m_df_56[i],
                                       crc_112 |-> m_crc_112[i], crc_56 |-> m_crc_56[i]],
                                      cmp[i])]
       IN /\ m_high' = [i \in RightPhases |-> r[i].high]
          /\ m_low' = [i \in RightPhases |-> r[i].low]
          /\ m_df_112' = [i \in RightPhases |-> r[i].df_112]
          /\ m_df_56' = [i \in RightPhases |-> r[i].df_56]
          /\ m_crc_112' = [i \in RightPhases |-> r[i].crc_112]
          /\ m_crc_56' = [i \in RightPhases |-> r[i].crc_56]
    /\ shifts' = shifts + 1
    /\ UNCHANGED <<tableVars, deltaVars, bitsVars>>
    /\ UNCHANGED <<demodVars, ringVars, mainVars>>
    /\ UNCHANGED <<tickVars, fixVars, moreVars>>

NextLeft == \E cmp \in [RightPhases -> {0, 1}] : ShiftInNewBitsLeft(cmp)

(***************************************************************************)
(* CRCErrorTable.hpp: the constructors of the two tables, insert by        *)
(* insert, and lookup on the finished table.                               *)
(***************************************************************************)
\* the sizes of DF17ErrorTable and DF11ErrorTable
tableSize_plain(which) == IF which = "df17" THEN 2343 ELSE 225

\* the template argument of BaseErrorTable
tableSize(which) == IF which = "df17" THEN DF17Size ELSE DF11Size

\* the fix-ops of one loop of a constructor, in the order of the loop
opsOfLoop(pattern, upTo) == [k \in 1 .. upTo |-> encodeFixOp(pattern, k - 1)]

\* the fix-ops the constructors pass to insert, in that order
constructorOps(which) ==
    IF which = "df17"
    THEN opsOfLoop(1, 112 - 5) \o opsOfLoop(3, 111 - 5) \o opsOfLoop(7, 110 - 5)
         \o opsOfLoop(129, 16)
    ELSE opsOfLoop(1, 56 - 5) \o opsOfLoop(3, 55 - 5)

\* BaseErrorTable(), then the constructor of the derived class starts
InitTable ==
    /\ t_which \in {"df17", "df11"}
    /\ t_table = BaseErrorTable
    /\ t_todo = constructorOps(t_which)
    /\ t_done = <<>>
    /\ lk_crc = 0
    /\ lk_result = encodeFixOp(0, 0)

\* the next insert of the constructor
Insert ==
    /\ t_todo # <<>>
    /\ t_table' = insert(t_table, tableSize(t_which), Head(t_todo))
    /\ t_todo' = Tail(t_todo)
    /\ t_done' = Append(t_done, [op |-> Head(t_todo), crc |-> computeOp(Head(t_todo))])
    /\ UNCHANGED <<t_which, lk_crc, lk_result>>
    /\ UNCHANGED <<rightVars, deltaVars, bitsVars>>
    /\ UNCHANGED <<demodVars, ringVars, mainVars>>
    /\ UNCHANGED <<tickVars, fixVars, moreVars>>

\* the crcs lookup is called with: the residues of the fix-ops inserted, 0,
\* and for every residue another crc of its bucket and the number of its bucket
LookupInputs ==
    {0} \cup {t_done[k].crc : k \in DOMAIN t_done}
        \cup {t_done[k].crc + tableSize(t_which) : k \in DOMAIN t_done}
        \cup {t_done[k].crc % tableSize(t_which) : k \in DOMAIN t_done}

\* lookup(crc) on the finished table
Lookup(crc) ==
    /\ t_todo = <<>>
    /\ lk_crc' = crc
    /\ lk_result' = lookup(t_table, tableSize(t_which), crc)
    /\ UNCHANGED <<t_which, t_table, t_todo, t_done>>
    /\ UNCHANGED <<rightVars, deltaVars, bitsVars>>
    /\ UNCHANGED <<demodVars, ringVars, mainVars>>
    /\ UNCHANGED <<tickVars, fixVars, moreVars>>

NextTable ==
    \/ Insert
    \/ \E crc \in LookupInputs : Lookup(crc)

(***************************************************************************)
(* CRC.hpp: the loop of the generic delta<bitIndex>().                     *)
(***************************************************************************)
\* the specialisations of delta: delta<111>() and delta<55>()
DeltaIndices == {55, 111}

\* what the specialisation delta<bitIndex>() returns
deltaSpecialised(bitIndex) == IF bitIndex = 111 THEN delta_111 ELSE delta_55

\* crc_t crc = 0x1; i = 0
InitDelta ==
    /\ d_bitIndex \in DeltaIndices
    /\ d_i = 0
    /\ d_crc = 1

\* one round of the loop
DeltaStep ==
    /\ d_i < d_bitIndex
    /\ d_crc' = shiftReduce(d_crc)
    /\ d_i' = d_i + 1
    /\ UNCHANGED d_bitIndex
    /\ UNCHANGED <<rightVars, tableVars, bitsVars>>
    /\ UNCHANGED <<demodVars, ringVars, mainVars>>
    /\ UNCHANGED <<tickVars, fixVars, moreVars>>

NextDelta == DeltaStep

(***************************************************************************)
(* Bits128.hpp: shiftLeft(int) on the two 64-bit words.  A shift of a      *)
(* uint64_t by 64 is undefined: the builds produce 0 (the shift carried    *)
(* out in full) or the operand unchanged (the count taken modulo 64).      *)
(***************************************************************************)
\* x << n and x >> n on uint64_t, for 0 <= n <= 64
shl64(x, n) == IF n < 64 THEN {shiftLeft64(x, n)} ELSE {{}, x}

shr64(x, n) == IF n < 64 THEN {shiftRight(x, n)} ELSE {{}, x}

\* Bits128::shiftLeft(int i): the values m_bits can have afterwards
shiftLeft_int(bits, i) ==
    IF i < 64
    THEN {[w \in 0 .. 1 |-> IF w = 1 THEN shiftLeft64(bits[1], i) \cup carry
                            ELSE shiftLeft64(bits[0], i)]
            : carry \in shr64(bits[0], 64 - i)}
    ELSE {[w \in 0 .. 1 |-> IF w = 1 THEN h ELSE {}] : h \in shl64(bits[0], i - 64)}

\* the values shiftLeft(int) is called on
InputBits == {{0}, {63}, {0, 63, 64, 127}, 0 .. 127}

MaxShiftCalls == 2

\* Bits128(h, l)
InitBits ==
    /\ bits0 \in InputBits
    /\ m_bits = [w \in 0 .. 1 |-> IF w = 1 THEN {b - 64 : b \in {x \in bits0 : x >= 64}}
                                 ELSE {x \in bits0 : x < 64}]
    /\ shiftedBy = 0
    /\ shiftCalls = 0

\* shiftLeft(k)
ShiftLeft(k) ==
    /\ shiftCalls < MaxShiftCalls
    /\ shiftedBy + k <= 128
    /\ m_bits' \in shiftLeft_int(m_bits, k)
    /\ shiftedBy' = shiftedBy + k
    /\ shiftCalls' = shiftCalls + 1
    /\ UNCHANGED bits0
    /\ UNCHANGED <<rightVars, tableVars, deltaVars>>
    /\ UNCHANGED <<demodVars, ringVars, mainVars>>
    /\ UNCHANGED <<tickVars, fixVars, moreVars>>

NextBits == \E k \in 0 .. 128 : ShiftLeft(k)

(***************************************************************************)
(* CRC::applyFixOp on a frame that suffered one of the error patterns the  *)
(* error tables hold: what handleExtSquitterLongMessage and                *)
(* handleDF11ShortMessage do with a frame whose crc is not zero.           *)
(***************************************************************************)
\* applyFixOp(fixop_t, Bits128&, offset): Bits128 bitsToFlip((uint64_t)op.pattern);
\* bitsToFlip.shiftLeft(op.index + offset); bits = bits ^ bitsToFlip, for every
\* value shiftLeft(int) can leave in bitsToFlip
applyFixOpLongOutcomes(op, bits, offset) ==
    {XorBits(bits, Bits128(b[1], b[0])) :
        b \in shiftLeft_int([w \in 0 .. 1 |-> IF w = 0 THEN BitsOf(op.pattern) ELSE {}],
                            op.index + offset)}

\* applyFixOp(fixop_t, uint64_t&, offset)
applyFixOpShortOutcomes(op, frameShort, offset) ==
    {XorBits(frameShort, f) : f \in shl64(BitsOf(op.pattern), op.index + offset)}

\* the fix-ops of the table of the long (short) frames
FixOps(long) ==
    LET ops == constructorOps(IF long THEN "df17" ELSE "df11")
    IN {ops[k] : k \in DOMAIN ops}

\* the frames on the air: CRC-zero DF17 and DF11 frames of two addresses
CleanFrames(long) ==
    IF long
    THEN {LongFrame(17, CA5, IcaoA, ME1, 0), LongFrame(17, CA5, IcaoB, ME2, 0)}
    ELSE {ShortFrame(11, CA5, IcaoA, 0), ShortFrame(11, CA5, IcaoB, 0)}

\* the bits the error pattern of op hits: the pattern, op.index positions up
ErrorBits(op) == {b + op.index : b \in BitsOf(op.pattern)}

\* the crc of the frame received and what the error table says about it
crcOfFrame(long, frame) == IF long THEN compute(112, frame) ELSE compute(56, frame)

lookupFixOp(long, frame) ==
    IF long THEN lookup(df17ErrorTable, DF17Size, crcOfFrame(long, frame))
    ELSE lookup(df11ErrorTable, DF11Size, crcOfFrame(long, frame))

\* a frame arrives with the bits of one fix-op of its table flipped
InitFix ==
    /\ fx_long \in BOOLEAN
    /\ fx_op \in FixOps(fx_long)
    /\ fx_frame \in {XorBits(f, ErrorBits(fx_op)) : f \in CleanFrames(fx_long)}
    /\ fx_result = {}
    /\ fx_pc = "received"

\* fix_op = table.lookup(crc); if (fix_op.valid()) applyFixOp(fix_op, frame, 0)
Repair ==
    /\ fx_pc = "received"
    /\ LET fix_op == lookupFixOp(fx_long, fx_frame)
       IN IF valid(fix_op)
          THEN /\ fx_result' \in IF fx_long
                                 THEN applyFixOpLongOutcomes(fix_op, fx_frame, 0)
                                 ELSE applyFixOpShortOutcomes(fix_op, fx_frame, 0)
               /\ fx_pc' = "repaired"
          ELSE /\ fx_result' = fx_frame
               /\ fx_pc' = "dropped"
    /\ UNCHANGED <<fx_long, fx_op, fx_frame>>
    /\ UNCHANGED <<rightVars, tableVars, deltaVars, bitsVars, tickVars, moreVars>>
    /\ UNCHANGED <<demodVars, ringVars, mainVars>>

NextFix == Repair

(***************************************************************************)
(* DemodCore::shiftInNewBits called over and over with nothing but noise   *)
(* in the registers: the decay sweep of ICAOTable::tick.                   *)
(***************************************************************************)
\* the buckets followed: the first two, the one of IcaoA, the last
TickBuckets == {0, 1, Hash(KeyA), Size - 1}

\* simulated seconds of calls in one behaviour, before a last sweep
MaxSeconds == 1

\* the entry of bucket b right after a CRC-zero DF17 frame of an address of
\* that bucket (0x120000 + b, CA 5) was handled
SeenEntry(b) ==
    [trusted |-> 0, icao |-> (CA5 * 16777216) + 1179648 + b,
     ttl |-> TTL_not_trusted, ttl_trusted |-> TTL_trusted]

\* the loop of shiftInNewBits: n rounds of handleStream(i); m_currTime++ on
\* registers holding noise
RECURSIVE NoiseRounds(_, _)
NoiseRounds(d, n) ==
    IF n = 0 THEN d
    ELSE NoiseRounds([handleStream(d, W_Noise) EXCEPT !.currTime = @ + 1], n - 1)

\* the buckets whose entry this step changes
Decayed == {b \in TickBuckets : m_table'[b] # m_table[b]}

\* one call of shiftInNewBits, all registers holding noise
NoiseCall ==
    /\ ticks < (MaxSeconds * TickPeriod) + Size
    /\ LET c == tick([table |-> m_table, sq |-> m_squawkAlt, time1Mhz |-> m_time1Mhz])
           d == NoiseRounds([Members EXCEPT !.table = c.table, !.sq = c.sq], NumStreams)
       IN /\ SetMembers(d)
          /\ m_time1Mhz' = c.time1Mhz
    /\ reg' = W_Noise
    /\ ticks' = ticks + 1
    /\ sinceVisit' = [b \in TickBuckets |-> IF b \in Decayed THEN 0 ELSE sinceVisit[b] + 1]
    /\ visitCount' = [b \in TickBuckets |->
                         IF b \in Decayed THEN visitCount[b] + 1 ELSE visitCount[b]]
    /\ UNCHANGED <<phase, windows, cleanES, log, lastRx, handled, calls, idles>>
    /\ UNCHANGED <<ringVars, mainVars>>
    /\ UNCHANGED <<rightVars, tableVars, deltaVars, bitsVars, fixVars, moreVars>>

NextTick == NoiseCall

(***************************************************************************)
(* ICAOTable::checkAltitude and checkSquawk called over and over on the    *)
(* bucket of one address, as sendFrameLongAligned and                      *)
(* sendFrameShortAligned call them for the frames of that address.         *)
(***************************************************************************)
\* the bucket the iterator points to
PlausBucket == Hash(KeyA)

\* decoded altitudes (units of 25 ft) and 13-bit identity fields received
AltValues == {0, 50, 100, 400}

SquawkValues == {0, 1200, Squawk1, 7500}

\* calls in one behaviour
MaxCacheCalls == 5

\* the entry of KeyA found alive
InitPlaus ==
    /\ m_table = [b \in Buckets |->
                     IF b = PlausBucket
                     THEN [trusted |-> 0, icao |-> KeyA, ttl |-> TTL_not_trusted,
                           ttl_trusted |-> TTL_trusted]
                     ELSE EmptyEntry]
    /\ m_squawkAlt = [b \in Buckets |-> EmptySquawkAlt]
    /\ cacheLog = <<>>

\* m_cache.checkAltitude(it, alt)
CheckAltitude(it, v) ==
    /\ Len(cacheLog) < MaxCacheCalls
    /\ LET r == checkAltitude(m_squawkAlt, it, v)
       IN /\ m_squawkAlt' = r.sq
          /\ cacheLog' = Append(cacheLog, [op |-> "checkAltitude", it |-> it,
                                           arg |-> v, ok |-> r.ok])
    /\ UNCHANGED <<m_table, m_time1Mhz, m_prevLongFrame, m_prevShortFrame,
                   m_prevFrameLongSent, m_prevTimeLongSent, m_prevFrameShortSent,
                   m_prevTimeShortSent, m_currTime, out, phase, reg, windows, cleanES,
                   log, lastRx, handled, calls, idles>>
    /\ UNCHANGED <<ringVars, mainVars>>
    /\ UNCHANGED <<rightVars, tableVars, deltaVars, bitsVars, tickVars, fixVars>>
    /\ UNCHANGED stampVars

\* m_cache.checkSquawk(it, sqwk)
CheckSquawk(it, v) ==
    /\ Len(cacheLog) < MaxCacheCalls
    /\ LET r == checkSquawk(m_squawkAlt, it, v)
       IN /\ m_squawkAlt' = r.sq
          /\ cacheLog' = Append(cacheLog, [op |-> "checkSquawk", it |-> it,
                                           arg |-> v, ok |-> r.ok])
    /\ UNCHANGED <<m_table, m_time1Mhz, m_prevLongFrame, m_prevShortFrame,
                   m_prevFrameLongSent, m_prevTimeLongSent, m_prevFrameShortSent,
                   m_prevTimeShortSent, m_currTime, out, phase, reg, windows, cleanES,
                   log, lastRx, handled, calls, idles>>
    /\ UNCHANGED <<ringVars, mainVars>>
    /\ UNCHANGED <<rightVars, tableVars, deltaVars, bitsVars, tickVars, fixVars>>
    /\ UNCHANGED stampVars

NextPlaus ==
    \/ \E v \in AltValues : CheckAltitude(PlausBucket, v)
    \/ \E v \in SquawkValues : CheckSquawk(PlausBucket, v)

(***************************************************************************)
(* The ICAOTable on its own: the calls DemodCore makes on it, for the      *)
(* addresses of one bucket.  DemodCore marks and checks an entry only      *)
(* through an iterator that findWithCA or find returned valid, and inserts *)
(* only an address that findWithCA did not find.                           *)
(***************************************************************************)
\* the bucket followed and the ICAO+CA values that hash to it: address 0 with
\* CA 0, and the addresses 0x010000 and 0x020000 with CA 5
CacheBucket == 0

CacheKeys == {0, (CA5 * 16777216) + 65536, (CA5 * 16777216) + 131072}

\* the altitude and the squawk the frames of an address carry
CacheAlt == 100

CacheSquawk == Squawk1

\* ICAOTable()
InitCache ==
    /\ m_table = [b \in {CacheBucket} |-> EmptyEntry]
    /\ m_squawkAlt = [b \in {CacheBucket} |-> EmptySquawkAlt]
    /\ cacheLog = <<>>

\* what a call on the table leaves alone
CacheRest ==
    /\ UNCHANGED <<m_time1Mhz, m_prevLongFrame, m_prevShortFrame,
                   m_prevFrameLongSent, m_prevTimeLongSent, m_prevFrameShortSent,
                   m_prevTimeShortSent, m_currTime, out, phase, reg, windows, cleanES,
                   log, lastRx, handled, calls, idles>>
    /\ UNCHANGED <<ringVars, mainVars>>
    /\ UNCHANGED <<rightVars, tableVars, deltaVars, bitsVars, tickVars, fixVars>>
    /\ UNCHANGED stampVars

\* m_cache.insertWithCA(icaoWithCA), called when findWithCA did not find it
InsertWithCA(k) ==
    /\ Len(cacheLog) < MaxCacheCalls
    /\ ~isValid(findWithCA(m_table, k))
    /\ m_table' = insertWithCA(m_table, k)
    /\ cacheLog' = Append(cacheLog, [op |-> "insertWithCA", arg |-> k,
                                     before |-> m_table[Hash(k)],
                                     entry |-> m_table'[Hash(k)],
                                     sq |-> m_squawkAlt[Hash(k)]])
    /\ UNCHANGED m_squawkAlt
    /\ CacheRest

\* m_cache.findWithCA(icaoWithCA)
FindWithCA(k) ==
    /\ Len(cacheLog) < MaxCacheCalls
    /\ cacheLog' = Append(cacheLog, [op |-> "findWithCA", arg |-> k,
                                     ok |-> isValid(findWithCA(m_table, k))])
    /\ UNCHANGED <<m_table, m_squawkAlt>>
    /\ CacheRest

\* m_cache.find(crc), crc a 24-bit address: the handlers of the address-parity
\* formats return before it when the crc is 0
Find(icao) ==
    /\ Len(cacheLog) < MaxCacheCalls
    /\ icao # 0
    /\ cacheLog' = Append(cacheLog, [op |-> "find", arg |-> icao,
                                     ok |-> isValid(find(m_table, icao))])
    /\ UNCHANGED <<m_table, m_squawkAlt>>
    /\ CacheRest

\* m_cache.markAsSeen(e) on the entry findWithCA(k) found
MarkAsSeen(k) ==
    /\ Len(cacheLog) < MaxCacheCalls
    /\ isValid(findWithCA(m_table, k))
    /\ m_table' = markAsSeen(m_table, findWithCA(m_table, k))
    /\ cacheLog' = Append(cacheLog, [op |-> "markAsSeen", arg |-> k])
    /\ UNCHANGED m_squawkAlt
    /\ CacheRest

\* m_cache.markAsTrustedSeen(e) on the entry findWithCA(k) found
MarkAsTrustedSeen(k) ==
    /\ Len(cacheLog) < MaxCacheCalls
    /\ isValid(findWithCA(m_table, k))
    /\ m_table' = markAsTrustedSeen(m_table, findWithCA(m_table, k))
    /\ cacheLog' = Append(cacheLog, [op |-> "markAsTrustedSeen", arg |-> k])
    /\ UNCHANGED m_squawkAlt
    /\ CacheRest

\* the sweep of tick() comes by the bucket: doTickForEntry(index)
DoTickForEntry(index) ==
    /\ Len(cacheLog) < MaxCacheCalls
    /\ LET c == doTickForEntry([table |-> m_table, sq |-> m_squawkAlt], index)
       IN /\ m_table' = c.table
          /\ m_squawkAlt' = c.sq
    /\ cacheLog' = Append(cacheLog, [op |-> "doTickForEntry", arg |-> index,
                                     reset |-> /\ m_table[index].icao # 0
                                               /\ m_table[index].ttl = 0,
                                     entry |-> m_table'[index]])
    /\ CacheRest

\* the entry of k is found and alive, as the handlers ask before they call
\* sendFrameLongAligned or sendFrameShortAligned
FoundAlive(k) ==
    /\ isValid(findWithCA(m_table, k))
    /\ isAlive(m_table, findWithCA(m_table, k))

NextCache ==
    \/ \E k \in CacheKeys : InsertWithCA(k)
    \/ \E k \in CacheKeys : FindWithCA(k)
    \/ \E k \in CacheKeys : Find(k % 16777216)
    \/ \E k \in CacheKeys : MarkAsSeen(k)
    \/ \E k \in CacheKeys : MarkAsTrustedSeen(k)
    \/ DoTickForEntry(CacheBucket)
    \/ \E k \in CacheKeys : FoundAlive(k) /\ CheckAltitude(Hash(k), CacheAlt)
    \/ \E k \in CacheKeys : FoundAlive(k) /\ CheckSquawk(Hash(k), CacheSquawk)

(***************************************************************************)
(* DemodCore.hpp, ShiftRegisters.hpp: m_currTime and the timestamps of the *)
(* lines, for every instantiated NumStreams and both register layouts.     *)
(* What the handlers of a stream decide is an input here: the line, if     *)
(* any, that the dispatcher of the stream sends.                           *)
(***************************************************************************)
\* the values of NumStreams with a specialised currTimeTo12MhzTimeStamp
SupportedNumStreams == {6, 8, 10, 12, 16, 20, 24, 40, 48}

Layouts == {"left", "right"}

\* the conversion with the low two bits of the clock added at 16 streams
currTimeTo12MhzTimeStampOf_lowBits(n, t) ==
    CASE n = 8  -> t + (t \div 2)
      [] n = 16 -> (t \div 2) + (t % 4)
      [] n = 6  -> t * 2
      [] n = 12 -> t
      [] n = 24 -> t \div 2
      [] n = 48 -> t \div 4
      [] n = 10 -> t + (t \div 5)
      [] n = 20 -> (t \div 2) + (t \div 10)
      [] n = 40 -> (t \div 4) + (t \div 20)

\* DemodCore<n>::currTimeTo12MhzTimeStamp()
currTimeTo12MhzTimeStampOf(n, t) ==
    CASE n = 8  -> t + (t \div 2)
      [] n = 16 -> (t \div 2) + (t \div 4)
      [] n = 6  -> t * 2
      [] n = 12 -> t
      [] n = 24 -> t \div 2
      [] n = 48 -> t \div 4
      [] n = 10 -> t + (t \div 5)
      [] n = 20 -> (t \div 2) + (t \div 10)
      [] n = 40 -> (t \div 4) + (t \div 20)

\* RegisterLayout<56, 112> and RegisterLayout<128, 128>
MessageStart_Short(layout) == IF layout = "right" THEN 56 ELSE 128

MessageStart_Long(layout) == IF layout = "right" THEN 112 ELSE 128

MaxOf(a, b) == IF a > b THEN a ELSE b

OffsetMLAT_ShortOf(layout) ==
    MaxOf(MessageStart_Long(layout) - MessageStart_Short(layout), 0) * 12

OffsetMLAT_LongOf(layout) ==
    MaxOf(MessageStart_Short(layout) - MessageStart_Long(layout), 0) * 12

\* calls of shiftInNewBits followed stream by stream
MaxStampCalls == 3

\* stretches of calls without a line
MaxStampIdles == 1

\* lines written in one behaviour
MaxStampLines == 3

\* the lengths of the stretches of calls without a line
StampIdleLengths == {54, 1000}

\* the streams whose dispatcher may send a line
StampPhases(n) == {0, n - 1}

\* DemodCore<n> with the layout, as constructed; i = n outside the loop
StampBuild(n, layout) ==
    [NumStreams |-> n, layout |-> layout, currTime |-> 0, i |-> n, out |-> <<>>,
     calls |-> 0, explicit |-> 0, idles |-> 0]

InitStamp == stamp \in {StampBuild(n, layout) : n \in SupportedNumStreams, layout \in Layouts}

StampRest ==
    /\ UNCHANGED <<demodVars, ringVars, mainVars>>
    /\ UNCHANGED <<rightVars, tableVars, deltaVars, bitsVars, tickVars, fixVars, cacheVars>>

\* shiftInNewBits: the registers shift, the cache ticks, and the loop starts
StampShiftInNewBits ==
    /\ stamp.i = stamp.NumStreams
    /\ stamp.explicit < MaxStampCalls
    /\ stamp' = [stamp EXCEPT !.i = 0, !.calls = @ + 1, !.explicit = @ + 1]
    /\ StampRest

\* one round of the loop: the dispatcher of stream i sends a short line, a
\* long line or nothing, then m_currTime++
StampHandleStream(line) ==
    /\ stamp.i < stamp.NumStreams
    /\ line # "none" => /\ stamp.i \in StampPhases(stamp.NumStreams)
                        /\ Len(stamp.out) < MaxStampLines
    /\ LET ts == currTimeTo12MhzTimeStampOf(stamp.NumStreams, stamp.currTime)
              sent == IF line = "long"
                      THEN <<[timeStamp |-> ts + OffsetMLAT_LongOf(stamp.layout),
                              long |-> TRUE, time |-> stamp.currTime]>>
                      ELSE IF line = "short"
                      THEN <<[timeStamp |-> ts + OffsetMLAT_ShortOf(stamp.layout),
                              long |-> FALSE, time |-> stamp.currTime]>>
                      ELSE <<>>
       IN stamp' = [stamp EXCEPT !.out = @ \o sent, !.currTime = @ + 1, !.i = @ + 1]
    /\ StampRest

\* s calls of shiftInNewBits in a row in which no dispatcher sends a line
StampIdleCalls(s) ==
    /\ stamp.i = stamp.NumStreams
    /\ stamp.idles < MaxStampIdles
    /\ stamp' = [stamp EXCEPT !.currTime = @ + (s * stamp.NumStreams),
                              !.calls = @ + s, !.idles = @ + 1]
    /\ StampRest

NextStamp ==
    \/ StampShiftInNewBits
    \/ \E line \in {"none", "short", "long"} : StampHandleStream(line)
    \/ \E s \in StampIdleLengths : StampIdleCalls(s)

\* the units at rest
IdleRight == InitRight

IdleTable ==
    /\ t_which = "df11" /\ t_table = BaseErrorTable /\ t_todo = <<>> /\ t_done = <<>>
    /\ lk_crc = 0 /\ lk_result = encodeFixOp(0, 0)

IdleDelta == d_bitIndex = 0 /\ d_i = 0 /\ d_crc = 1

IdleBits ==
    /\ bits0 = {} /\ m_bits = [w \in 0 .. 1 |-> {}] /\ shiftedBy = 0 /\ shiftCalls = 0

IdleTick == ticks = 0 /\ sinceVisit = <<>> /\ visitCount = <<>>

IdleFix ==
    /\ fx_long = FALSE /\ fx_op = encodeFixOp(0, 0) /\ fx_frame = {} /\ fx_result = {}
    /\ fx_pc = "dropped"

IdleCache == cacheLog = <<>>

IdleStamp == stamp = StampBuild(8, "left")

IdleMore == IdleTick /\ IdleFix /\ IdleCache /\ IdleStamp

IdleUnits == IdleRight /\ IdleTable /\ IdleDelta /\ IdleBits /\ IdleMore

Next ==
    \/ ShiftInNewBits
    \/ \E w \in windows \cup Background : HandleStream(w)
    \/ \E s \in IdleSeconds : IdleCalls(s)

InitTrust == InitDemod /\ InitRing /\ InitMain /\ IdleUnits /\ windows = TrustWindows

InitAllCall == InitDemod /\ InitRing /\ InitMain /\ IdleUnits /\ windows = AllCallWindows

InitAltitude == InitDemod /\ InitRing /\ InitMain /\ IdleUnits /\ windows = AltitudeWindows

InitPhases == InitDemod /\ InitRing /\ InitMain /\ IdleUnits /\ windows = PhaseWindows

InitParity == InitDemod /\ InitRing /\ InitMain /\ IdleUnits /\ windows = ParityWindows

\* the ring on its own: the demodulator as constructed, nothing on the air
InitRingOnly ==
    /\ InitRing
    /\ InitMain
    /\ IdleUnits
    /\ InitDemod /\ windows = {}
    /\ m_prevShortFrame = {} /\ m_prevFrameShortSent = {}

SpecTrust == InitTrust /\ [][Next]_vars

SpecAllCall == InitAllCall /\ [][Next]_vars

SpecAltitude == InitAltitude /\ [][Next]_vars

SpecPhases == InitPhases /\ [][Next]_vars

SpecParity == InitParity /\ [][Next]_vars

SpecRing == InitRingOnly /\ [][NextRing]_vars

\* handle_sigint: SIGINT or SIGTERM arrives
Sigint ==
    /\ ~g_shutdownRequested
    /\ g_shutdownRequested' = TRUE
    /\ committedAtRequest' = committed
    /\ UNCHANGED ringVars
    /\ UNCHANGED demodVars
    /\ UNCHANGED unitVars

\* the ring between the device callback and the consumer loop of
\* run_async_device, with the signal handlers installed
NextMain ==
    \/ \E n \in WriteSizes : Write(n)
    \/ WriteReturn
    \/ WriteFull
    \/ WaitForSpace
    \/ WaitForSpaceSleep
    \/ WriteCopy
    \/ WriteCommit
    \/ EofLocal
    \/ EofWait
    \/ WaitForNewBlocksSleep
    \/ ProcessCallback
    \/ ProcessConsume
    \/ Shutdown
    \/ Sigint

SpecMain == InitRingOnly /\ [][NextMain]_vars

\* the steps of the consumer thread: while (!eof()) process(callback)
ConsumerStep ==
    EofLocal \/ EofWait \/ WaitForNewBlocksSleep \/ ProcessCallback \/ ProcessConsume

\* the consumer thread keeps being scheduled while it is not asleep on the
\* condition variable
SpecRingFair == SpecRing /\ WF_vars(ConsumerStep)

\* the steps of the producer thread inside write()
ProducerStep ==
    WriteReturn \/ WriteFull \/ WaitForSpace \/ WaitForSpaceSleep \/ WriteCopy \/ WriteCommit

\* the producer thread keeps being scheduled while it is not asleep on the
\* condition variable; nothing is asked of the consumer
SpecRingProducerFair == SpecRing /\ WF_vars(ProducerStep)

SpecMainFair == SpecMain /\ WF_vars(ConsumerStep)

\* the program as constructed, nothing running
InitIdle ==
    /\ InitRing
    /\ InitMain
    /\ InitDemod /\ windows = {}
    /\ m_prevShortFrame = {} /\ m_prevFrameShortSent = {}

\* the table holding fresh entries in the buckets followed, the sweep at the
\* start of a second
InitTickOnly ==
    /\ InitRing /\ InitMain
    /\ IdleRight /\ IdleTable /\ IdleDelta /\ IdleBits /\ IdleFix /\ IdleCache
    /\ IdleStamp
    /\ m_table = [b \in TickBuckets |-> SeenEntry(b)]
    /\ m_squawkAlt = [b \in TickBuckets |-> EmptySquawkAlt]
    /\ m_time1Mhz = 0
    /\ m_prevLongFrame = {} /\ m_prevShortFrame = {}
    /\ m_prevFrameLongSent = {} /\ m_prevTimeLongSent = 0
    /\ m_prevFrameShortSent = {} /\ m_prevTimeShortSent = 0
    /\ m_currTime = 0
    /\ out = <<>> /\ phase = NumStreams /\ reg = {} /\ windows = {}
    /\ cleanES = {} /\ log = <<>> /\ lastRx = 0
    /\ handled = 0 /\ calls = 0 /\ idles = 0
    /\ ticks = 0
    /\ sinceVisit = [b \in TickBuckets |-> 0]
    /\ visitCount = [b \in TickBuckets |-> 0]

SpecTick == InitTickOnly /\ [][NextTick]_vars

\* the right-aligned register bank fed with bits
InitRightOnly == InitIdle /\ InitRight /\ IdleTable /\ IdleDelta /\ IdleBits /\ IdleMore

SpecRight == InitRightOnly /\ [][NextRight]_vars

\* the register bank of the left-aligned layout alone; it starts as the
\* right-aligned one does, from ShiftRegistersBase()
SpecLeft == InitRightOnly /\ [][NextLeft]_vars

\* the construction of df17ErrorTable and df11ErrorTable, then lookups
InitTableOnly == InitIdle /\ IdleRight /\ InitTable /\ IdleDelta /\ IdleBits /\ IdleMore

SpecTable == InitTableOnly /\ [][NextTable]_vars

\* the loop of delta<55>() and delta<111>()
InitDeltaOnly == InitIdle /\ IdleRight /\ IdleTable /\ InitDelta /\ IdleBits /\ IdleMore

SpecDelta == InitDeltaOnly /\ [][NextDelta]_vars

\* calls of shiftLeft(int) on a Bits128
InitBitsOnly == InitIdle /\ IdleRight /\ IdleTable /\ IdleDelta /\ InitBits /\ IdleMore

SpecBits == InitBitsOnly /\ [][NextBits]_vars

\* applyFixOp alone
InitFixOnly ==
    /\ InitIdle /\ IdleRight /\ IdleTable /\ IdleDelta /\ IdleBits /\ IdleTick /\ IdleCache
    /\ IdleStamp
    /\ InitFix

SpecFix == InitFixOnly /\ [][NextFix]_vars

\* the members of DemodCore outside the ICAOTable, nothing received yet
DemodAtRest ==
    /\ m_time1Mhz = 0
    /\ m_prevLongFrame = {} /\ m_prevShortFrame = {}
    /\ m_prevFrameLongSent = {} /\ m_prevTimeLongSent = 0
    /\ m_prevFrameShortSent = {} /\ m_prevTimeShortSent = 0
    /\ m_currTime = 0
    /\ out = <<>> /\ phase = NumStreams /\ reg = {} /\ windows = {}
    /\ cleanES = {} /\ log = <<>> /\ lastRx = 0
    /\ handled = 0 /\ calls = 0 /\ idles = 0

\* checkAltitude and checkSquawk alone
InitPlausOnly ==
    /\ InitRing /\ InitMain
    /\ IdleRight /\ IdleTable /\ IdleDelta /\ IdleBits /\ IdleTick /\ IdleFix
    /\ InitPlaus
    /\ IdleStamp
    /\ DemodAtRest

\* the ICAOTable as constructed, then calls of its functions
InitCacheOnly ==
    /\ InitRing /\ InitMain
    /\ IdleRight /\ IdleTable /\ IdleDelta /\ IdleBits /\ IdleTick /\ IdleFix
    /\ InitCache
    /\ IdleStamp
    /\ DemodAtRest

SpecCache == InitCacheOnly /\ [][NextCache]_vars

\* the clock and the timestamps of DemodCore alone, for every build
InitStampOnly ==
    /\ InitIdle
    /\ IdleRight /\ IdleTable /\ IdleDelta /\ IdleBits /\ IdleTick /\ IdleFix /\ IdleCache
    /\ InitStamp

SpecStamp == InitStampOnly /\ [][NextStamp]_vars

SpecPlaus == InitPlausOnly /\ [][NextPlaus]_vars

(***************************************************************************)
(* The claims.                                                             *)
(***************************************************************************)
\* the transmissions of log, without the stretches of noise
Tx == SelectSeq(log, LAMBDA e : e.idle = 0)

\* the frames of the lines written, in order
OutFrames == [i \in 1 .. Len(out) |-> out[i].frame]

\* one round of the loop of shiftInNewBits has run (on the window reg')
Handled == phase' = phase + 1

\* the bucket of key k holds k with both TTLs running
HoldsTrusted(table, k) ==
    /\ EntryAt(table, Hash(k)).icao = k
    /\ EntryAt(table, Hash(k)).ttl > 0
    /\ EntryAt(table, Hash(k)).ttl_trusted > 0

\* what is_trusted says on the iterator find_with_ca returns for k
ReportedTrusted(table, k) ==
    isValid(findWithCA(table, k)) /\ isTrusted(table, findWithCA(table, k))

\* C1: an ICAO+CA address for which no CRC-zero DF17/18/19 frame was ever
\* handled is never reported trusted, whatever its bucket held before.
C1_NeverTrustedWithoutCleanES ==
    \A k \in {KeyA, KeyB} : k \notin cleanES => ~ReportedTrusted(m_table, k)

\* C2: handling a frame whose CRC is non-zero (DF17/18/19 or DF11) never
\* changes a bucket from not trusted to trusted.
C2_NonZeroCRCNeverPromotes ==
    [][(/\ Handled
        /\ \/ getDF(reg') \in {17, 18, 19} /\ getCRC_112(reg') # 0
           \/ getDF(reg') = 11 /\ getCRC_56(reg') # 0)
       => \A b \in Buckets : isTrusted(m_table', b) => isTrusted(m_table, b)]_vars

\* C3: a DF17/18/19 frame with non-zero CRC that df17ErrorTable has a fix-op
\* for is emitted only if the ICAO+CA of the corrected frame is in the table
\* and trusted; otherwise nothing is emitted and the table is left as it was.
C3_RepairedESOnlyIfTrusted ==
    [][(/\ Handled
        /\ getDF(reg') \in {17, 18, 19}
        /\ getCRC_112(reg') # 0
        /\ valid(lookup(df17ErrorTable, DF17Size, getCRC_112(reg'))))
       => LET fix_op == lookup(df17ErrorTable, DF17Size, getCRC_112(reg'))
              k == extractICAOWithCA_Long(
                       applyFixOpLong(fix_op, extractAlignedFrameLong(reg'), 0))
          IN /\ out' # out => HoldsTrusted(m_table, k)
             /\ ~HoldsTrusted(m_table, k) => out' = out /\ m_table' = m_table]_vars

\* C3, its case: the repaired frame of a trusted address was emitted
C3_RepairedEmitted ==
    /\ reg = W_DF17_A_bit60
    /\ Len(log) = 2 /\ log[1].w = W_DF17_A /\ log[2].w = W_DF17_A_bit60
    /\ OutFrames = <<extractAlignedFrameLong(W_DF17_A)>>

\* a CRC-zero DF11 frame for an address that is not in the table is handled:
\* the one place that calls insertWithCA and nothing after it
InsertsOnly(k) ==
    /\ Handled
    /\ getDF(reg') = 11 /\ getCRC_56(reg') = 0
    /\ extractAlignedFrameShort(reg') # m_prevShortFrame
    /\ k = extractICAOWithCA_Short(extractAlignedFrameShort(reg'))
    /\ ~isValid(findWithCA(m_table, k))

\* C4: insert_with_ca(k) leaves bucket k & 0xFFFF holding k with ttl = 0 and
\* ttl_trusted = 0, whatever the bucket held before.
C4_InsertZeroesTTLs ==
    [][\A k \in {KeyA, KeyB} :
          InsertsOnly(k) => /\ m_table'[Hash(k)].icao = k
                            /\ m_table'[Hash(k)].ttl = 0
                            /\ m_table'[Hash(k)].ttl_trusted = 0]_vars

\* a CRC-zero DF17/18/19 frame for an address that is not in the table is
\* handled, and is not the candidate the dispatcher examined last
FirstCleanES(k) ==
    /\ Handled
    /\ getDF(reg') \in {17, 18, 19} /\ getCRC_112(reg') = 0
    /\ extractAlignedFrameLong(reg') # m_prevLongFrame
    /\ k = extractICAOWithCA_Long(extractAlignedFrameLong(reg'))
    /\ EntryAt(m_table, Hash(k)).icao # k

\* C5 as claimed: a CRC-zero DF17/18/19 frame from an address that is not in
\* the table is emitted on that first reception and the address is trusted
\* afterwards.
C5_FirstCleanESEmitted ==
    [][\A k \in {KeyA, KeyB} :
          FirstCleanES(k) => /\ Len(out') = Len(out) + 1
                             /\ out'[Len(out')].frame = extractAlignedFrameLong(reg')
                             /\ HoldsTrusted(m_table', k)]_vars

\* C5 as amended: a CRC-zero DF17/18/19 frame from an address that is not in
\* the table writes no line on that first reception; the address is inserted
\* and trusted afterwards.
C5_FirstCleanESInsertsTrusted ==
    [][\A k \in {KeyA, KeyB} :
          FirstCleanES(k) => out' = out /\ HoldsTrusted(m_table', k)]_vars

\* C5, its case: the first clean DF17 of an address was handled
C5_FirstCleanESHandled ==
    /\ reg = W_DF17_A
    /\ Len(log) = 1 /\ log[1].w = W_DF17_A
    /\ out = <<>>
    /\ HoldsTrusted(m_table, KeyA)

\* the windows of the transmissions handled, in order
TxW == [i \in 1 .. Len(Tx) |-> Tx[i].w]

\* the seconds of noise in seq before its n-th transmission: the visits of the
\* decay sweep to every bucket up to then
RECURSIVE IdleBeforeTx(_, _)
IdleBeforeTx(seq, n) ==
    IF seq = <<>> THEN 0
    ELSE IF Head(seq).idle = 0
    THEN IF n = 1 THEN 0 ELSE IdleBeforeTx(Tail(seq), n - 1)
    ELSE Head(seq).idle + IdleBeforeTx(Tail(seq), n)

\* all the seconds of noise in log
IdleSum == IdleBeforeTx(log, Len(log) + 1)

F_DF11_A == extractAlignedFrameShort(W_DF11_A)

\* C6 as claimed: a CRC-zero DF11 frame from an address that is not in the
\* table produces no output on its first reception; a second reception within
\* 10 seconds and more than NumStreams stream-ticks after the first produces
\* exactly one line.
C6_SecondAllCallEmitted ==
    /\ [](TxW = <<W_DF11_A>> => out = <<>>)
    /\ [][(/\ Handled /\ reg' = W_DF11_A
           /\ TxW = <<W_DF11_A>>
           /\ IdleSum < TTL_not_trusted
           /\ m_currTime - lastRx > NumStreams)
          => Len(out') = 1]_vars

\* C6 as amended: in an empty bucket neither the first nor the second
\* reception of a CRC-zero DF11 frame produces output; the third produces
\* exactly one line when none of the three is dropped as a phase duplicate,
\* the decay sweep did not visit the bucket between the first and the second,
\* visited it fewer than TTL_not_trusted times between the second and the
\* third, and the third comes NumStreams stream-ticks or more after the start.
C6_ThirdAllCallEmitted ==
    /\ []((Len(Tx) <= 2 /\ \A i \in DOMAIN Tx : Tx[i].w = W_DF11_A) => out = <<>>)
    /\ [][(/\ Handled /\ reg' = W_DF11_A
           /\ F_DF11_A # m_prevShortFrame
           /\ TxW = <<W_DF11_A, W_DF11_A>>
           /\ ~Tx[1].dup /\ ~Tx[2].dup
           /\ IdleBeforeTx(log, 2) = 0
           /\ IdleSum < TTL_not_trusted
           /\ m_currTime >= NumStreams)
          => /\ Len(out') = 1
             /\ out'[1].frame = F_DF11_A]_vars

\* C6, its case: three receptions, a second of noise before the third, one line
C6_ThirdAllCallHandled ==
    /\ reg = W_DF11_A
    /\ TxW = <<W_DF11_A, W_DF11_A, W_DF11_A>>
    /\ ~Tx[1].dup /\ ~Tx[2].dup /\ ~Tx[3].dup
    /\ Len(log) = 4 /\ log[3].idle = 1
    /\ OutFrames = <<F_DF11_A>>

F_alt1 == extractAlignedFrameLong(W_DF20_A_alt1)

F_alt2 == extractAlignedFrameLong(W_DF20_A_alt2)

F_alt3 == extractAlignedFrameLong(W_DF20_A_alt3)

C8_OneLineAcrossPhases ==
    [][(/\ Handled /\ phase = 4
        /\ out # <<>>
        /\ out[Len(out)].frame = m_prevFrameLongSent
        /\ extractAlignedFrameLong(reg') = m_prevFrameLongSent
        /\ getDF(reg') \in {17, 18, 19} /\ getCRC_112(reg') = 0
        /\ m_prevTimeLongSent % NumStreams = 3
        /\ m_currTime = m_prevTimeLongSent + NumStreams + 1)
       => out' = out]_vars

\* the blocks the callback of process() was called on so far
Delivered == Len(consumed) \div BlockSize

\* the blocks released by consumeBlocks so far
Released == committed - ring_numFullBlocks

\* the blocks counted in m_numFullBlocks of the ring and not yet released:
\* the next ring_numFullBlocks blocks from the read position on
PendingBlocks ==
    {(reader_readBlockIndex + j) % NumBlocks : j \in 0 .. ring_numFullBlocks - 1}

\* the cells of the ring the copy of this step writes
CopiedCells ==
    {i \in 0 .. bufferSize - 1 : (i - writer_writePos) % bufferSize < numWritten'}

\* C9: what the callback of the consumer was handed is, at every moment and
\* in every interleaving, the values copied into the ring, in the order they
\* were copied and without a gap or a repeat, up to the end of the last block
\* handed over; the blocks handed over are the blocks released, and the one
\* being released; and every block committed is either handed over or still
\* counted as full.
C9_ExactlyOnceInOrder ==
    /\ Len(consumed) = BlockSize * Delivered
    /\ Len(consumed) <= Len(written)
    /\ consumed = SubSeq(written, 1, Len(consumed))
    /\ Delivered = Released + (IF reader_pc = "consume" THEN 1 ELSE 0)
    /\ Released >= 0
    /\ committed * BlockSize <= Len(written)

\* the consumer was handed more blocks than the ring has, after a write that
\* wrapped around
C9_WrappedAroundDelivered ==
    /\ Delivered > NumBlocks
    /\ reader_pc = "eof"
    /\ writer_pc = "idle"

\* C10: a copy of the producer never touches a cell of a block that is
\* counted in m_numFullBlocks and not yet released (the block the callback
\* is reading is one of them); with every block full no cell is written; and
\* the producer stays in waitForSpace as long as fewer than two blocks are
\* free and shutdown was not called.
C10_NoCopyIntoFullBlock ==
    [][/\ (writer_pc = "loop" /\ writer_pc' = "commit")
            => \A i \in CopiedCells : (i \div BlockSize) \notin PendingBlocks
       /\ ring_numFullBlocks = NumBlocks => ring_data' = ring_data
       /\ ( /\ writer_pc = "wait"
            /\ ~ring_shutdown
            /\ NumBlocks - ring_numFullBlocks <= 1 )
            => writer_pc' = "wait"]_vars

\* the producer was asked for three times the capacity of the ring before
\* the consumer did anything, filled the ring, and waits
C10_ProducerWaitsOnFullRing ==
    /\ writer_pc = "wait"
    /\ ring_numFullBlocks = NumBlocks
    /\ remaining = 2 * bufferSize
    /\ consumed = <<>>
    /\ reader_pc = "eof"
    /\ reader_numFullBlocks = 0
    /\ ~ring_shutdown

\* C11: in every reachable state of the ring, whatever the interleaving of
\* the producer and the consumer, 0 <= m_numFullBlocks <= NumBlocks:
\* consumeBlocks never takes the counter below 0 and commitBlocks never
\* raises it above NumBlocks.
C11_FullBlocksInRange ==
    /\ ring_numFullBlocks >= 0
    /\ ring_numFullBlocks <= NumBlocks

\* C11, its case: the counter is at NumBlocks after blocks were released
\* and committed again, and the consumer is about to release one more
C11_FullAfterRelease ==
    /\ ring_numFullBlocks = NumBlocks
    /\ Released >= 1
    /\ reader_pc = "consume"

\* eof() returns true in this step
EofReturnsTrue == reader_pc = "eof" /\ reader_pc' = "done"

\* C12: eof() of the consumer returns true only in a state where shutdown is
\* set and m_numFullBlocks is 0, never while a committed block has not been
\* handed to the callback and released; and once shutdown() was called and
\* every committed block is processed, eof() returns true unless a further
\* block is committed first.
C12_EofOnlyWhenDrained ==
    /\ [][EofReturnsTrue => /\ ring_shutdown
                            /\ ring_numFullBlocks = 0
                            /\ Delivered = committed
                            /\ Released = committed]_vars
    /\ (ring_shutdown /\ ring_numFullBlocks = 0)
          ~> (reader_pc = "done" \/ ring_numFullBlocks > 0)

\* C12, its case: after shutdown() the consumer processed what was committed,
\* more blocks than the ring has, and eof() returned true
C12_EofAfterDrain ==
    /\ reader_pc = "done"
    /\ ring_shutdown
    /\ committed > NumBlocks
    /\ Delivered = committed

\* the consumer loop of run_async_device is left: eof() of the input reader
\* returned true
LoopExits == reader_pc = "eof" /\ reader_pc' \in {"done", "exit"}

\* C13: when shutdown is requested, the consumer loop passes every block
\* that was committed to the ring at that moment to the callback before it
\* exits; no block committed to the ring is unprocessed when the loop exits.
C13_DrainsCommittedBeforeExit ==
    [][(g_shutdownRequested /\ LoopExits) =>
            /\ Delivered' >= committedAtRequest
            /\ ring_numFullBlocks' = 0
            /\ reader_numFullBlocks' = 0]_vars

\* C14: once the flag is set, the consumer loop eventually terminates,
\* whatever the producer does: also when it commits no further block and
\* never calls shutdown() of the ring.
C14_ConsumerTerminatesAfterSignal ==
    g_shutdownRequested ~> (reader_pc \in {"done", "exit"})

\* C15: from the all-zero register bank, after every sequence of bits shifted
\* in with shiftInNewBits of the right-aligned layout, and for every stream p,
\* m_crc_56[p] is CRC::compute<56> of the low 56 bits of the window of p and
\* m_crc_112[p] is CRC::compute<112> of its low 112 bits.
C15_RunningCrcIsComputedCrc ==
    \A p \in RightPhases :
        /\ m_crc_56[p] = compute(56, extractFrame(p))
        /\ m_crc_112[p] = compute(112, extractFrame(p))

\* a one has been shifted past bit 111 of stream 0 while stream 1 holds
\* other bits, and the crcs are not zero
C15_OneLeftLongWindow ==
    /\ 112 \in extractFrame(0)
    /\ extractFrame(0) # extractFrame(1)
    /\ 56 \in extractFrame(1)
    /\ m_crc_112[0] # 0 /\ m_crc_56[1] # 0

\* the bucket of the k-th fix-op passed to insert
BucketOf(k) == t_done[k].crc % tableSize(t_which)

\* C16: while df17ErrorTable (size 4859) and df11ErrorTable (size 469) are
\* built, no two fix-ops passed to insert share a bucket compute(op) mod size,
\* and insert drops none of them: each is stored in its bucket with its crc.
C16_NoCollisionNoDrop ==
    /\ Cardinality({BucketOf(k) : k \in DOMAIN t_done}) = Len(t_done)
    /\ \A k \in DOMAIN t_done :
          /\ keyAt(t_table, BucketOf(k)) = t_done[k].crc
          /\ opAt(t_table, BucketOf(k)) = t_done[k].op

\* the constructor of df17ErrorTable has finished: 334 fix-ops in 334 buckets
C16_Df17TableBuilt ==
    /\ t_which = "df17"
    /\ t_todo = <<>>
    /\ Len(t_done) = 334
    /\ Cardinality(DOMAIN t_table.keys) = 334

\* the fix-ops inserted whose crc is the crc of the last lookup
LookupHits == {k \in DOMAIN t_done : t_done[k].crc = lk_crc}

\* C17: lookup(compute(op)) returns exactly op for every fix-op inserted, and
\* lookup(crc) returns {0, 0} for every crc that is the residue of no fix-op
\* inserted, 0 included.
C17_LookupRoundTrip ==
    /\ \A k \in LookupHits : lk_result = t_done[k].op
    /\ LookupHits = {} => lk_result = encodeFixOp(0, 0)

\* lookup was called with a crc that is no residue but falls into the bucket of
\* a fix-op, and returned {0, 0}
C17_MissInOccupiedBucket ==
    /\ t_todo = <<>>
    /\ lk_crc # 0
    /\ LookupHits = {}
    /\ keyAt(t_table, lk_crc % tableSize(t_which)) # 0
    /\ lk_result = encodeFixOp(0, 0)

\* C18: what the loop of the generic delta<bitIndex>() ends with for
\* bitIndex 55 and 111 is what the specialisations return: 0x018567 for
\* delta<55>() and 0x3935EA for delta<111>().
C18_SpecialisedDeltaIsGenericDelta ==
    d_i = d_bitIndex /\ d_bitIndex \in DeltaIndices =>
        /\ d_crc = deltaSpecialised(d_bitIndex)
        /\ d_bitIndex = 55 => d_crc = 99687
        /\ d_bitIndex = 111 => d_crc = 3749354

\* the loop of delta<111>() has run its 111 rounds
C18_LoopOf111Finished == d_bitIndex = 111 /\ d_i = 111 /\ d_crc # 1

\* the 128-bit value of m_bits
Value128 == Bits128(m_bits[1], m_bits[0])

\* the 128-bit logical left shift of s by k
LogicalShiftLeft(s, k) == {b + k : b \in {x \in s : x + k <= 127}}

\* C19: for k in [0, 128], shiftLeft(k) is the 128-bit logical left shift by
\* k (k = 0 leaves the value unchanged, k = 128 clears it), and shiftLeft(a)
\* followed by shiftLeft(b) is shiftLeft(a + b) when a + b <= 128.
C19_ShiftLeftIsLogicalShift == Value128 = LogicalShiftLeft(bits0, shiftedBy)

\* C20: in every reachable state of the ICAOTable, every bucket with
\* ttl_trusted > 0 has ttl > 0.
C20_TrustedImpliesAlive ==
    \A b \in Buckets : m_table[b].ttl_trusted > 0 => m_table[b].ttl > 0

\* s seconds of nothing but noise go by in this step: the decay sweep visits
\* every bucket s times
IdleFor(s) == idles' = idles + 1 /\ log'[Len(log')].idle = s

\* C21: without a mark_as_seen or mark_as_trusted_seen in between no
\* operation increases the ttl of an entry, and an entry that was marked as
\* seen is cleared (its key reset to 0) after exactly TTL_not_trusted = 10
\* visits of the decay sweep to its bucket.
C21_SilentEntryClearedAfterTTL ==
    [][\A b \in Buckets :
          /\ ~Handled => m_table'[b].ttl <= m_table[b].ttl
          /\ (/\ IdleFor(TTL_not_trusted)
              /\ m_table[b].icao # 0
              /\ m_table[b].ttl = TTL_not_trusted)
             => m_table'[b].icao = 0]_vars

\* C22: a call of shiftInNewBits advances the counter of tick() by exactly
\* one and decays at most one bucket, and in every window of TickPeriod =
\* 1,000,000 consecutive calls every bucket is visited by the decay exactly
\* once: a bucket goes no TickPeriod calls without a visit, and two visits of
\* a bucket are TickPeriod calls apart.
C22_OneVisitPerBucketPerSecond ==
    [][ticks' = ticks + 1 =>
          /\ m_time1Mhz' = (m_time1Mhz + 1) % TickPeriod
          /\ Cardinality(Decayed) <= 1
          /\ \A b \in TickBuckets :
                /\ sinceVisit'[b] < TickPeriod
                /\ (b \in Decayed /\ visitCount[b] > 0)
                   => sinceVisit[b] = TickPeriod - 1]_vars

\* the first sweep of the second is over: every bucket followed has been
\* visited once, bucket 0 (visited by the last call of the second) not yet
C22_FirstSweepDone ==
    /\ ticks = Size
    /\ visitCount[1] = 1 /\ visitCount[Hash(KeyA)] = 1 /\ visitCount[Size - 1] = 1
    /\ visitCount[0] = 0
    /\ m_table[Size - 1].ttl = TTL_not_trusted - 1
    /\ sinceVisit[1] = Size - 1

\* the downlink formats whose parity field is overlaid with the address
AddressParityFormats == {0, 4, 5, 16, 20, 21}

\* the CRC the handler of the window w reads, and the entry find(crc) yields
CrcOf(w) == IF getDF(w) \in {16, 20, 21} THEN getCRC_112(w) ELSE getCRC_56(w)

FoundFor(table, w) == find(table, CrcOf(w))

\* the round just run wrote a line
Emitted == Len(out') = Len(out) + 1

\* C23: no DF 0/4/5/16/20/21 frame is emitted when the entry find(crc)
\* yields is alive but not trusted.
C23_AddressParityNeedsTrusted ==
    [][(Handled /\ getDF(reg') \in AddressParityFormats /\ Emitted)
       => ~(/\ isValid(FoundFor(m_table, reg'))
            /\ isAlive(m_table, FoundFor(m_table, reg'))
            /\ ~isTrusted(m_table, FoundFor(m_table, reg')))]_vars

\* what the plausibility test of sendFrameLongAligned / sendFrameShortAligned
\* answers for the window w and the entry e, on the records sq
Plausible(sq, e, w) ==
    LET code == IF getDF(w) \in {16, 20, 21}
                THEN extractSquawkAlt_Long(extractAlignedFrameLong(w))
                ELSE extractSquawkAlt_Short(extractAlignedFrameShort(w))
    IN IF getDF(w) \in {5, 21}
       THEN checkSquawk(sq, e, code).ok
       ELSE checkAltitude(sq, e, decodeAltitude(code)).ok

\* C26: a DF 0/4/5/16/20/21 frame is emitted only if its CRC is non-zero,
\* find(crc) yields a valid entry, the entry is alive and the altitude check
\* (DF 0/4/16/20) or the squawk check (DF 5/21) accepts; the table changes by
\* mark_as_seen of that entry when the frame is emitted and not at all when
\* the frame is rejected.
C26_ParityFrameAcceptedOrNoRefresh ==
    [][(Handled /\ getDF(reg') \in AddressParityFormats)
       => /\ Emitted => /\ CrcOf(reg') # 0
                        /\ isValid(FoundFor(m_table, reg'))
                        /\ isAlive(m_table, FoundFor(m_table, reg'))
                        /\ Plausible(m_squawkAlt, FoundFor(m_table, reg'), reg')
          /\ m_table' = IF Emitted THEN markAsSeen(m_table, FoundFor(m_table, reg'))
                        ELSE m_table]_vars

\* two all-call replies made the address known and alive, a second of noise
\* wore its ttl down, a first DF20 altitude was recorded and rejected, and
\* the second DF20 frame was emitted and brought the ttl back
C26_SecondAltitudeRefreshed ==
    /\ Len(log) = 5
    /\ log[1].w = W_DF11_A /\ log[2].w = W_DF11_A /\ log[3].idle = 1
    /\ log[4].w = W_DF20_A_alt1 /\ log[5].w = W_DF20_A_alt2
    /\ Len(out) = 1 /\ out[1].frame = extractAlignedFrameLong(W_DF20_A_alt2)
    /\ m_table[Hash(KeyA)].ttl = TTL_not_trusted
    /\ m_table[Hash(KeyA)].ttl_trusted = 0

\* handleDF11ShortMessage on the window w: the frame, its fix-op, the frame
\* after applyFixOp and the ICAO+CA of a frame
FrameShortOf(w) == extractAlignedFrameShort(w)

FixOpShortOf(w) == lookup(df11ErrorTable, DF11Size, getCRC_56(w))

RepairedShortOf(w) == applyFixOpShort(FixOpShortOf(w), FrameShortOf(w), 0)

NotFound(table, frameShort) ==
    ~isValid(findWithCA(table, extractICAOWithCA_Short(frameShort)))

\* C27: a CRC-zero DF11 frame whose ICAO+CA is not found has the address
\* inserted and writes no line; a DF11 frame repaired through df11ErrorTable
\* whose corrected ICAO+CA is not found inserts nothing, writes no line and
\* leaves the ICAOTable unchanged.
C27_UnknownAllCallInsertedUnlessRepaired ==
    [][(Handled /\ getDF(reg') = 11)
       => /\ (getCRC_56(reg') = 0 /\ NotFound(m_table, FrameShortOf(reg')))
             => /\ m_table' = insertWithCA(m_table,
                                           extractICAOWithCA_Short(FrameShortOf(reg')))
                /\ out' = out
          /\ (/\ getCRC_56(reg') # 0
              /\ valid(FixOpShortOf(reg'))
              /\ NotFound(m_table, RepairedShortOf(reg')))
             => /\ m_table' = m_table
                /\ out' = out]_vars

\* phaseDupCheckShort lets the window of the round through
PassesGateShort == FrameShortOf(reg') # m_prevShortFrame

\* C27, for the frames that phaseDupCheckShort lets through: a CRC-zero DF11
\* frame whose ICAO+CA is not found has the address inserted and writes no
\* line; a repaired DF11 frame whose corrected ICAO+CA is not found inserts
\* nothing, writes no line and leaves the ICAOTable unchanged.
C27_PastGateInsertedUnlessRepaired ==
    [][(Handled /\ getDF(reg') = 11 /\ PassesGateShort)
       => /\ (getCRC_56(reg') = 0 /\ NotFound(m_table, FrameShortOf(reg')))
             => /\ m_table' = insertWithCA(m_table,
                                           extractICAOWithCA_Short(FrameShortOf(reg')))
                /\ out' = out
          /\ (/\ getCRC_56(reg') # 0
              /\ valid(FixOpShortOf(reg'))
              /\ NotFound(m_table, RepairedShortOf(reg')))
             => /\ m_table' = m_table
                /\ out' = out]_vars

\* a repaired all-call reply of an unknown address left the table empty, and
\* the clean all-call reply of another address was inserted after it
C27_RepairedIgnoredCleanInserted ==
    /\ Len(log) = 2
    /\ log[1].w = W_DF11_A_bit30 /\ ~log[1].dup
    /\ log[2].w = W_DF11_B /\ ~log[2].dup
    /\ m_table[Hash(KeyB)] = [EmptyEntry EXCEPT !.icao = KeyB]
    /\ out = <<>>

\* C24: a call of write() made after shutdown() commits no block, and once
\* eof() has returned true no full block turns up in the ring any more.
C24_WriteAfterShutdownCommitsNothing ==
    [][/\ (shutdownAtCall /\ writer_pc # "idle") => committed' = committed
       /\ reader_pc = "done" => ring_numFullBlocks' = 0]_vars

\* C25: a frame whose crc is not zero and for which the error table yields a
\* valid fix-op op comes out of applyFixOp with crc zero, differing from the
\* frame received in exactly the bits of op.pattern shifted left by op.index,
\* for every op.index, 0 and 64 and more included.
C25_ApplyFixOpFlipsThePatternOnly ==
    fx_pc = "repaired"
    => /\ crcOfFrame(fx_long, fx_frame) # 0
       /\ crcOfFrame(fx_long, fx_result) = 0
       /\ XorBits(fx_result, fx_frame) = ErrorBits(lookupFixOp(fx_long, fx_frame))

\* the entry findWithCA yields for the ICAO+CA of the DF11 frame in w
FoundWithCA(table, w) == findWithCA(table, extractICAOWithCA_Short(FrameShortOf(w)))

\* the window of the round is a DF11 frame with a crc that is not zero and
\* that df11ErrorTable has no fix-op for
LastResort ==
    /\ Handled /\ getDF(reg') = 11
    /\ getCRC_56(reg') # 0
    /\ ~valid(FixOpShortOf(reg'))

\* C28: a DF11 frame with a crc that is not zero and no fix-op in
\* df11ErrorTable is emitted only if find_with_ca on its ICAO+CA is valid and
\* is_trusted; the frame emitted is the frame received XOR crc, whose CRC-56
\* is zero, and the table changes by mark_as_seen of that entry only
\* (ttl_trusted is left alone); for any other address nothing is emitted and
\* the ICAOTable is unchanged.
C28_LastResortOnlyForTrusted ==
    [][LastResort
       => LET e == FoundWithCA(m_table, reg')
          IN /\ Emitted
                => /\ isValid(e) /\ isTrusted(m_table, e)
                   /\ out'[Len(out')].frame
                         = XorBits(FrameShortOf(reg'), BitsOf(getCRC_56(reg')))
                   /\ compute(56, out'[Len(out')].frame) = 0
                   /\ m_table' = markAsSeen(m_table, e)
                   /\ m_table'[e].ttl_trusted = m_table[e].ttl_trusted
             /\ ~(isValid(e) /\ isTrusted(m_table, e))
                => /\ out' = out
                   /\ m_table' = m_table]_vars

\* the parity of an all-call reply of the trusted address was rewritten and
\* the reply written out, a second of noise after the clean DF17 frame that
\* made the address trusted
C28_ParityRewritten ==
    /\ Len(log) = 3
    /\ log[1].w = W_DF17_A /\ log[2].idle = 1 /\ log[3].w = W_DF11_A_par /\ ~log[3].dup
    /\ Len(out) = 1
    /\ out[1].frame = extractAlignedFrameShort(W_DF11_A)
    /\ m_table[Hash(KeyA)].ttl = TTL_not_trusted
    /\ m_table[Hash(KeyA)].ttl_trusted = TTL_trusted - 1

\* the window of the round holds a CRC-zero DF17/18/19 frame of an address
\* the table holds, identical to the long frame written last
ValidRepeatOfLastSent ==
    /\ Handled
    /\ getDF(reg') \in {17, 18, 19} /\ getCRC_112(reg') = 0
    /\ isValid(findWithCA(m_table, extractICAOWithCA_Long(extractAlignedFrameLong(reg'))))
    /\ \E i \in 1 .. Len(out) : out[i].long /\ out[i].frame = m_prevFrameLongSent
    /\ extractAlignedFrameLong(reg') = m_prevFrameLongSent

DroppedByGate ==
    /\ Handled
    /\ \/ /\ getDF(reg') \in {0, 4, 5, 11}
          /\ extractAlignedFrameShort(reg') = m_prevShortFrame
       \/ /\ getDF(reg') \in {16, 17, 18, 19, 20, 21}
          /\ extractAlignedFrameLong(reg') = m_prevLongFrame

\* C30: a candidate dropped by the phase-duplicate gate writes no line,
\* inserts nothing into the ICAOTable, marks no entry as seen or trusted-seen
\* and changes no altitude or squawk record.
C30_GateDropDoesNothing ==
    [][DroppedByGate
       => /\ out' = out
          /\ m_table' = m_table
          /\ m_squawkAlt' = m_squawkAlt
          /\ m_prevFrameLongSent' = m_prevFrameLongSent
          /\ m_prevFrameShortSent' = m_prevFrameShortSent]_vars

\* the identity reply that would have confirmed the squawk recorded by the
\* reply before it was dropped by the gate: the record is still unconfirmed
\* and nothing was written
C30_RepeatedIdentityReplyDropped ==
    /\ Len(log) = 4
    /\ log[1].w = W_DF11_A /\ ~log[1].dup
    /\ log[2].w = W_DF11_A /\ ~log[2].dup
    /\ log[3].w = W_DF5_A /\ ~log[3].dup
    /\ log[4].w = W_DF5_A /\ log[4].dup
    /\ m_table[Hash(KeyA)].ttl = TTL_not_trusted
    /\ m_squawkAlt[Hash(KeyA)].squawk = Squawk1
    /\ m_squawkAlt[Hash(KeyA)].squawk_cnt = 0
    /\ out = <<>>

\* the checks of one kind among the calls logged
ChecksOf(op) == SelectSeq(cacheLog, LAMBDA c : c.op = op)

\* a value agrees with the one kept: altitudes less than ALT_delta_25ft apart,
\* squawks equal
Agrees(op, kept, v) ==
    IF op = "checkAltitude" THEN Abs(kept - v) < ALT_delta_25ft ELSE kept = v

\* the record after the checks h, by the rules of hysteresis: "empty", a
\* "baseline" kept (the first value after a reset), a value "accepted", one
\* disagreement "missed" after an acceptance; "open" where the rules say nothing
\* (a disagreement with a baseline) until the next acceptance
RECURSIVE Hysteresis(_, _)
Hysteresis(op, h) ==
    IF h = <<>> THEN [mode |-> "empty", kept |-> 0]
    ELSE LET p == Hysteresis(op, SubSeq(h, 1, Len(h) - 1))
             c == h[Len(h)]
         IN IF p.mode = "open"
            THEN (IF c.ok THEN [mode |-> "accepted", kept |-> c.arg] ELSE p)
            ELSE IF p.mode = "empty" THEN [mode |-> "baseline", kept |-> c.arg]
            ELSE IF Agrees(op, p.kept, c.arg) THEN [mode |-> "accepted", kept |-> c.arg]
            ELSE IF p.mode = "accepted" THEN [mode |-> "missed", kept |-> p.kept]
            ELSE IF p.mode = "missed" THEN [mode |-> "empty", kept |-> 0]
            ELSE [mode |-> "open", kept |-> 0]

\* the value m_squawkAlt keeps for the kind of check
Stored(op) ==
    IF op = "checkAltitude" THEN m_squawkAlt[PlausBucket].altitude
    ELSE m_squawkAlt[PlausBucket].squawk

\* C31: for checkAltitude and checkSquawk on one bucket, a value is accepted iff
\* it agrees with the value kept from before (altitudes less than 80 units
\* apart, squawks equal); one disagreeing value after an acceptance is rejected
\* and leaves the stored value in place; a second disagreeing value in a row is
\* rejected and resets the record, so that the value after it starts a new
\* baseline (it is kept and not accepted).
C31_HystereticAcceptance ==
    \A op \in {"checkAltitude", "checkSquawk"} :
        LET h == ChecksOf(op)
        IN /\ \A i \in 1 .. Len(h) :
                  LET p == Hysteresis(op, SubSeq(h, 1, i - 1))
                  IN p.mode # "open" =>
                         (h[i].ok <=> (p.mode # "empty" /\ Agrees(op, p.kept, h[i].arg)))
           /\ Hysteresis(op, h).mode \in {"accepted", "missed"} =>
                  Stored(op) = Hysteresis(op, h).kept

\* whether a record holds a value to compare with: checkAltitude takes a stored
\* altitude of 0 for none, checkSquawk compares with whatever is stored
HasKept(op, p) == op = "checkSquawk" \/ p.kept # 0

\* the value kept after the checks h and whether the last of them was accepted
RECURSIVE KeptAfter(_, _)
KeptAfter(op, h) ==
    IF h = <<>> THEN [kept |-> 0, acc |-> FALSE]
    ELSE LET p == KeptAfter(op, SubSeq(h, 1, Len(h) - 1))
             v == h[Len(h)].arg
         IN IF HasKept(op, p) /\ Agrees(op, p.kept, v) THEN [kept |-> v, acc |-> TRUE]
            ELSE IF ~HasKept(op, p) THEN [kept |-> v, acc |-> FALSE]
            ELSE IF p.acc THEN [kept |-> p.kept, acc |-> FALSE]
            ELSE IF op = "checkAltitude" THEN [kept |-> 0, acc |-> FALSE]
            ELSE [kept |-> v, acc |-> FALSE]

\* C31 (amended): a value is accepted iff it agrees with the value stored, where
\* checkAltitude takes a stored 0 for no value (the value met then is stored as
\* the baseline) and checkSquawk compares with the stored squawk, 0 in a fresh
\* record; one disagreeing value after an acceptance is rejected and leaves the
\* stored value in place; the disagreeing value after it is rejected and clears
\* the stored altitude, respectively becomes the stored squawk itself.
C31_AcceptedIffAgreesWithStored ==
    \A op \in {"checkAltitude", "checkSquawk"} :
        LET h == ChecksOf(op)
        IN /\ \A i \in 1 .. Len(h) :
                  LET p == KeptAfter(op, SubSeq(h, 1, i - 1))
                  IN h[i].ok <=> (HasKept(op, p) /\ Agrees(op, p.kept, h[i].arg))
           /\ Stored(op) = KeptAfter(op, h).kept

\* a squawk accepted, two other squawks in a row rejected, and the second of them
\* accepted when it comes again
C31_SecondMissBecomesBaseline ==
    /\ Len(cacheLog) = 5
    /\ \A i \in 1 .. 5 : cacheLog[i].op = "checkSquawk"
    /\ cacheLog[1].arg = cacheLog[2].arg /\ cacheLog[2].ok
    /\ cacheLog[3].arg \notin {cacheLog[2].arg, cacheLog[4].arg} /\ ~cacheLog[3].ok
    /\ cacheLog[4].arg # cacheLog[2].arg /\ ~cacheLog[4].ok
    /\ cacheLog[5].arg = cacheLog[4].arg /\ cacheLog[5].ok

\* C32: a producer blocked in write() on a full ring resumes as soon as the
\* consumer has released one block (m_numFullBlocks = NumBlocks - 1) or shutdown
\* is signalled: the producer is asleep in waitForSpace only while the ring
\* holds NumBlocks full blocks and m_shutdown is not set.
C32_BlockedOnlyWhileFull ==
    "producer" \in cv_waiting => (ring_numFullBlocks = NumBlocks /\ ~ring_shutdown)

C35_WriteReturnsAfterShutdown ==
    (ring_shutdown /\ writer_pc # "idle") ~> (writer_pc = "idle")

\* shutdown() came during a call of write() that found the ring full, nothing
\* was ever consumed, and the call returned without copying all its data
C35_BailedOutOfFullRing ==
    /\ ring_shutdown /\ ~shutdownAtCall
    /\ writer_pc = "idle" /\ writes > 0
    /\ Len(written) < newData - 1
    /\ consumed = <<>>

\* the ICAO+CA the bucket holds after the calls h, by what was done to it: the
\* value of the last insertWithCA, nothing (-1) before the first insertWithCA
\* and after a visit of the sweep that reset the entry
RECURSIVE Holder(_)
Holder(h) ==
    IF h = <<>> THEN -1
    ELSE LET c == h[Len(h)]
         IN IF c.op = "insertWithCA" THEN c.arg
            ELSE IF c.op = "doTickForEntry" /\ c.reset THEN -1
            ELSE Holder(SubSeq(h, 1, Len(h) - 1))

\* C36: for every key, 0 included, findWithCA(k) (find(a) for a 24-bit address
\* a) returns a valid iterator only if a key equal to k (a key whose low 24
\* bits are a) was stored by insertWithCA and has not been overwritten or
\* cleared by the sweep since; a lookup in a bucket never written or cleared is
\* invalid.
C36_FoundOnlyIfStored ==
    \A i \in 1 .. Len(cacheLog) :
        LET c == cacheLog[i]
            held == Holder(SubSeq(cacheLog, 1, i - 1))
        IN /\ (c.op = "findWithCA" /\ c.ok) => held = c.arg
           /\ (c.op = "find" /\ c.ok) => (held # -1 /\ held % 16777216 = c.arg)

\* the calls after call i up to the first visit of the sweep mark nothing
SweptUnmarked(i, j) ==
    /\ i < j /\ j <= Len(cacheLog)
    /\ cacheLog[j].op = "doTickForEntry"
    /\ \A m \in (i + 1) .. (j - 1) : cacheLog[m].op \in {"findWithCA", "find"}

\* C37: an entry that insertWithCA created in an empty bucket (one that holds
\* no address: never written, or cleared) and that is not marked afterwards is
\* not alive, and the first visit of the sweep to its bucket clears it.
C37_UnmarkedInsertDiesAtFirstVisit ==
    \A i \in 1 .. Len(cacheLog) :
        (cacheLog[i].op = "insertWithCA" /\ Holder(SubSeq(cacheLog, 1, i - 1)) = -1) =>
            /\ cacheLog[i].entry.ttl = 0
            /\ \A j \in 1 .. Len(cacheLog) :
                   SweptUnmarked(i, j) => cacheLog[j].entry = EmptyEntry

\* C38: after insertWithCA has overwritten a bucket held by another address the
\* new occupant starts from an empty altitude/squawk record, as after a reset
\* by the sweep: its plausibility decisions do not depend on the record the
\* evicted address left.
C38_OverwriteStartsEmptyRecord ==
    \A i \in 1 .. Len(cacheLog) :
        (/\ cacheLog[i].op = "insertWithCA"
         /\ cacheLog[i].before.icao \notin {0, cacheLog[i].arg}) =>
            cacheLog[i].sq = EmptySquawkAlt

\* the bits hi .. lo of the window of stream p, moved down to bit 0
WindowBits(p, lo) == shiftRight(extractFrame(p), lo)

\* C33: in the left-aligned layout, from the all-zero register bank, after
\* every shiftInNewBits and for every stream p, m_crc_56[p] is the Mode S CRC
\* of the window bits 127..72, m_crc_112[p] the Mode S CRC of the window
\* bits 127..16, and the cached DF is the window bits 127..123.
C33_LeftRunningCrcIsComputedCrc ==
    \A p \in RightPhases :
        /\ m_crc_56[p] = compute(56, WindowBits(p, 72))
        /\ m_crc_112[p] = compute(112, WindowBits(p, 16))
        /\ m_df_112[p] = Field(extractFrame(p), 123, 5)

\* the call before shifted the first bit of stream 0 out of bit 127 and
\* moved the second one there; stream 1 holds other bits, ones are inside
\* the short window and below it, and the crcs are not zero
C33_OneLeftTheTop ==
    /\ shifts = 129
    /\ m_df_112[0] = 16
    /\ 127 \notin extractFrame(1)
    /\ 72 \in extractFrame(1)
    /\ 16 \in extractFrame(0)
    /\ m_crc_56[0] # 0 /\ m_crc_112[0] # 0 /\ m_crc_56[1] # 0

\* the lines i < j of the stamp unit are in order
StampOrdered(i, j) == stamp.out[i].timeStamp <= stamp.out[j].timeStamp

\* outside the loop m_currTime is NumStreams times the calls made; inside it,
\* the i rounds done have added i
StampClock ==
    stamp.currTime = IF stamp.i = stamp.NumStreams
                     THEN stamp.NumStreams * stamp.calls
                     ELSE (stamp.NumStreams * (stamp.calls - 1)) + stamp.i

====
